---- MODULE Spec2Model ----
(***************************************************************************)
(* PriceWatch: the scraping and scheduling core.                           *)
(*                                                                         *)
(*   - CircuitBreaker   (Backend/app/services/scraper_advanced.py)         *)
(*   - PriceScraper.scrape_product (Backend/app/services/scraper.py)       *)
(*   - check_prices_by_frequency, check_single_product (Backend/tasks.py) *)
(*   - PriceHistoryService (Backend/app/services/price_history.py)         *)
(*                                                                         *)
(* Time is counted in whole seconds.  Prices are whole currency units.     *)
(***************************************************************************)
EXTENDS Integers, Sequences, FiniteSets, TLC

VARIABLES
    redis,      \* circuit-breaker keys of the shared store, per site
    now,        \* datetime.utcnow(), in seconds
    wsite,      \* per worker: the site it was let through for, or NoSite
    wprobe,     \* per worker: TRUE when it was let through on a HALF_OPEN circuit
    streak,     \* per site: record_failure calls since the last record_success / reset
    lastOp,     \* the breaker call made by the last step
    cache,      \* result-cache keys of the shared store, per URL
    lastCache,  \* the cache call made by the last step
    put,        \* per URL: the last set(url, data, ttl) not deleted since
    max_retries,\* PriceScraper.max_retries
    sp,         \* the scrape_product call in progress: its position, locals and trace
    products,   \* the products table, per product id
    history,    \* the price_history rows of each product, in insertion order
    alerts,     \* the calls of email_service.send_price_alert, in order
    stats,      \* the rows of the scraping_stats table, in insertion order
    run,        \* the check_prices_by_frequency run in progress
    checks,     \* how many scrape results the tasks have received
    lastTask,   \* the result applied by the last step
    lastPre,    \* the product's row before the last step applied a result to it
    sched,      \* the run in progress: sorted rows, scrapes started, results applied
    proxy_list, \* ProxyRotator.proxy_list
    current_index, \* ProxyRotator.current_index
    enabled,    \* ProxyRotator.enabled
    lastProxy,  \* the rotator call made by the last step
    calls,      \* the get_next calls since the last add_proxy / remove_proxy
    page,       \* a product page: its URL and the nodes of its document
    lastPage,   \* the page function called by the last step, and what it returned
    wk,         \* per worker: the store operation its breaker call has come to
    ck,         \* per check of a product: the statement it has come to, its session
    breaker     \* the arguments the CircuitBreaker was constructed with

cbVars == <<redis, now, wsite, wprobe, streak, lastOp>>
scVars == <<cache, lastCache, put, max_retries, sp>>
dbVars == <<products, history, alerts, stats>>
taskVars == <<products, history, alerts, stats, run, checks, lastTask, lastPre, sched>>
libVars == <<proxy_list, current_index, enabled, lastProxy, calls, page, lastPage, wk, ck, breaker>>

vars == <<redis, now, wsite, wprobe, streak, lastOp, cache, lastCache, put,
          max_retries, sp, products, history, alerts, stats, run, checks,
          lastTask, lastPre, sched, proxy_list, current_index, enabled,
          lastProxy, calls, page, lastPage, wk, ck, breaker>>

-----------------------------------------------------------------------------
(* Bounds of the model *)

NumWorkers == 2
MaxTime == 120
TimeStep == 30
ExtraFailures == 1
MaxRetries == 3
NumProducts == 3
MaxChecks == 2
MaxHours == 12

Workers == 1..NumWorkers

-----------------------------------------------------------------------------
(* CircuitBreaker *)

STATE_CLOSED == "closed"
STATE_OPEN == "open"
STATE_HALF_OPEN == "half_open"

\* A key that is absent from the store.
Nil == "nil"
NoKey == -1

Sites == {"cdiscount", "fnac"}
NoSite == "none"

SITE_THRESHOLDS ==
    [amazon    |-> [failure_threshold |-> 10, recovery_timeout |-> 120],
     cdiscount |-> [failure_threshold |-> 8,  recovery_timeout |-> 90],
     default   |-> [failure_threshold |-> 5,  recovery_timeout |-> 60]]

\* dict.get(site, SITE_THRESHOLDS["default"])
get_site_thresholds(site) ==
    IF site \in DOMAIN SITE_THRESHOLDS THEN SITE_THRESHOLDS[site]
                                       ELSE SITE_THRESHOLDS["default"]

\* The constructor's defaults (self.failure_threshold and self.recovery_timeout are
\* stored but never read by the methods below).
failure_threshold == 5
recovery_timeout == 60
success_threshold == 2

\* The four keys of one site, none of them set.
NoKeys == [state |-> Nil, failures |-> NoKey, successes |-> NoKey, last_failure |-> NoKey]

\* redis INCR: an absent key counts as 0.
Incr(v) == IF v = NoKey THEN 1 ELSE v + 1

\* get_state: an absent state key reads as CLOSED.
get_state(r) == IF r.state = Nil THEN STATE_CLOSED ELSE r.state

\* is_available(site) at time t on the site's keys r: the answer and the keys after.
is_available(r, site, t) ==
    LET state == get_state(r)
        timeout == get_site_thresholds(site).recovery_timeout
    IN  IF state = STATE_CLOSED THEN [res |-> TRUE, store |-> r]
        ELSE IF state = STATE_OPEN THEN
            IF r.last_failure # NoKey /\ t >= r.last_failure + timeout
            THEN [res |-> TRUE,
                  store |-> [r EXCEPT !.state = STATE_HALF_OPEN, !.successes = 0]]
            ELSE [res |-> FALSE, store |-> r]
        ELSE [res |-> TRUE, store |-> r]

\* record_success with the failure counter left in place when the circuit closes.
record_success_keeps_failures(r, site) ==
    LET state == get_state(r)
    IN  IF state = STATE_HALF_OPEN THEN
            LET successes == Incr(r.successes)
            IN  IF successes >= success_threshold
                THEN [r EXCEPT !.state = STATE_CLOSED,
                               !.successes = NoKey, !.last_failure = NoKey]
                ELSE [r EXCEPT !.successes = successes]
        ELSE IF state = STATE_CLOSED THEN [r EXCEPT !.failures = 0]
        ELSE r

\* record_success(site) on the site's keys r.
record_success(r, site) ==
    LET state == get_state(r)
    IN  IF state = STATE_HALF_OPEN THEN
            LET successes == Incr(r.successes)
            IN  IF successes >= success_threshold
                THEN [r EXCEPT !.state = STATE_CLOSED, !.failures = NoKey,
                               !.successes = NoKey, !.last_failure = NoKey]
                ELSE [r EXCEPT !.successes = successes]
        ELSE IF state = STATE_CLOSED THEN [r EXCEPT !.failures = 0]
        ELSE r

\* record_failure that opens the circuit one failure late (> for >=).
record_failure_late(r, site, t) ==
    LET state == get_state(r)
        threshold == get_site_thresholds(site).failure_threshold
        failures == Incr(r.failures)
        counted == [r EXCEPT !.failures = failures, !.last_failure = t]
    IN  IF state = STATE_HALF_OPEN
        THEN [counted EXCEPT !.state = STATE_OPEN, !.successes = NoKey]
        ELSE IF failures > threshold
        THEN [counted EXCEPT !.state = STATE_OPEN]
        ELSE counted

\* record_failure without the HALF_OPEN case: only the threshold opens the circuit.
record_failure_no_half_open(r, site, t) ==
    LET threshold == get_site_thresholds(site).failure_threshold
        failures == Incr(r.failures)
        counted == [r EXCEPT !.failures = failures, !.last_failure = t]
    IN  IF failures >= threshold
        THEN [counted EXCEPT !.state = STATE_OPEN]
        ELSE counted

\* record_failure(site) at time t on the site's keys r.
record_failure(r, site, t) ==
    LET state == get_state(r)
        threshold == get_site_thresholds(site).failure_threshold
        failures == Incr(r.failures)
        counted == [r EXCEPT !.failures = failures, !.last_failure = t]
    IN  IF state = STATE_HALF_OPEN
        THEN [counted EXCEPT !.state = STATE_OPEN, !.successes = NoKey]
        ELSE IF failures >= threshold
        THEN [counted EXCEPT !.state = STATE_OPEN]
        ELSE counted

\* reset(site): the four keys are deleted.
\* A reset that deletes the state key only.
reset_state_only(r) == [r EXCEPT !.state = Nil]

reset(r) == NoKeys

-----------------------------------------------------------------------------
(* The breaker as the workers use it: a worker asks is_available, and when it *)
(* is let through it makes its request and records the outcome.              *)

\* lastOp: the call, its site, its answer, and get_state(site) before the call.
NoOp == [op |-> "none", site |-> NoSite, res |-> FALSE, pre |-> STATE_CLOSED]

\* No key is set in the store and no call has been made.
CbFresh ==
    /\ redis = [s \in Sites |-> NoKeys]
    /\ now = 0
    /\ wsite = [w \in Workers |-> NoSite]
    /\ wprobe = [w \in Workers |-> FALSE]
    /\ streak = [s \in Sites |-> 0]
    /\ lastOp = NoOp

\* CircuitBreaker(): the constructor's defaults are stored on the object.
CbInit ==
    /\ CbFresh
    /\ breaker = [failure_threshold |-> failure_threshold,
                  recovery_timeout |-> recovery_timeout]

\* The arguments a CircuitBreaker is constructed with.
Constructions ==
    {[failure_threshold |-> 3, recovery_timeout |-> 30],
     [failure_threshold |-> failure_threshold, recovery_timeout |-> recovery_timeout]}

\* CircuitBreaker(failure_threshold=T, recovery_timeout=R)
CbConstructed ==
    /\ CbFresh
    /\ breaker \in Constructions

IsAvailable(w, s) ==
    /\ wsite[w] = NoSite
    /\ LET a == is_available(redis[s], s, now)
       IN  /\ redis' = [redis EXCEPT ![s] = a.store]
           /\ wsite' = [wsite EXCEPT ![w] = IF a.res THEN s ELSE NoSite]
           /\ wprobe' = [wprobe EXCEPT ![w] = a.res /\ get_state(a.store) = STATE_HALF_OPEN]
           /\ lastOp' = [op |-> "is_available", site |-> s, res |-> a.res,
                         pre |-> get_state(redis[s])]
    /\ UNCHANGED <<now, streak, scVars, taskVars, libVars>>

RecordSuccess(w) ==
    /\ wsite[w] # NoSite
    /\ LET s == wsite[w]
       IN  /\ redis' = [redis EXCEPT ![s] = record_success(redis[s], s)]
           /\ streak' = [streak EXCEPT ![s] = 0]
           /\ lastOp' = [op |-> "record_success", site |-> s, res |-> TRUE,
                         pre |-> get_state(redis[s])]
    /\ wsite' = [wsite EXCEPT ![w] = NoSite]
    /\ wprobe' = [wprobe EXCEPT ![w] = FALSE]
    /\ UNCHANGED <<now, scVars, taskVars, libVars>>

RecordFailure(w) ==
    /\ wsite[w] # NoSite
    /\ LET s == wsite[w]
       IN  /\ Incr(redis[s].failures) <= get_site_thresholds(s).failure_threshold + ExtraFailures
           /\ redis' = [redis EXCEPT ![s] = record_failure(redis[s], s, now)]
           /\ streak' = [streak EXCEPT ![s] = @ + 1]
           /\ lastOp' = [op |-> "record_failure", site |-> s, res |-> TRUE,
                         pre |-> get_state(redis[s])]
    /\ wsite' = [wsite EXCEPT ![w] = NoSite]
    /\ wprobe' = [wprobe EXCEPT ![w] = FALSE]
    /\ UNCHANGED <<now, scVars, taskVars, libVars>>

Reset(s) ==
    /\ redis' = [redis EXCEPT ![s] = reset(redis[s])]
    /\ streak' = [streak EXCEPT ![s] = 0]
    /\ lastOp' = [op |-> "reset", site |-> s, res |-> TRUE, pre |-> get_state(redis[s])]
    /\ UNCHANGED <<now, wsite, wprobe, scVars, taskVars, libVars>>

Tick ==
    /\ now + TimeStep <= MaxTime
    /\ now' = now + TimeStep
    /\ lastOp' = [NoOp EXCEPT !.op = "tick"]
    /\ UNCHANGED <<redis, wsite, wprobe, streak, scVars, taskVars, libVars>>

CbNext ==
    \/ \E w \in Workers, s \in Sites : IsAvailable(w, s)
    \/ \E w \in Workers : RecordSuccess(w)
    \/ \E w \in Workers : RecordFailure(w)
    \/ \E s \in Sites : Reset(s)
    \/ Tick

-----------------------------------------------------------------------------
(* ScraperCache *)

Urls == {"https://www.fnac.com/a1", "https://www.cdiscount.com/b2"}

\* None, as get returns it for a missing key.  No payload of the store decodes
\* to it: every payload has the key cached_at.
NoData == <<>>

\* A key the store does not hold.
NoEntry == [data |-> {}, expires |-> NoKey]

\* settings.SCRAPER_CACHE_TTL
SCRAPER_CACHE_TTL == 3600

\* ScraperCache.default_ttl, as the constructor sets it when not told otherwise.
default_ttl == 3600

\* The dictionaries the callers cache: a scraped product, and one that was
\* itself read from the cache before.
CacheData ==
    {[name |-> "lamp", price |-> 95],
     [name |-> "lamp", price |-> 110],
     [name |-> "lamp", price |-> 110, cached_at |-> NoKey]}

\* The ttl argument of set: None (0) or a number of seconds.
CacheTTLs == {0, 60}

\* json.dumps of a dictionary of strings and numbers: its key/value pairs.
json_dumps(d) == {<<k, d[k]>> : k \in DOMAIN d}

\* json.loads of such a text.
json_loads(text) ==
    [k \in {pair[1] : pair \in text} |-> (CHOOSE pair \in text : pair[1] = k)[2]]

\* {**data, "cached_at": datetime.utcnow().isoformat()}
data_with_meta(data, t) ==
    [k \in DOMAIN data \cup {"cached_at"} |-> IF k = "cached_at" THEN t ELSE data[k]]

\* Whether the store holds the URL's key at time t (SETEX drops it at its TTL).
cache_holds(c, url, t) == c[url] # NoEntry /\ t < c[url].expires

\* A get that does not look at the TTL.
cache_get_stale(c, url, t) ==
    IF c[url] # NoEntry THEN json_loads(c[url].data) ELSE NoData

\* ScraperCache.get(url) at time t: the decoded payload, or None when the key
\* is absent or its TTL has run out.
cache_get(c, url, t) ==
    IF cache_holds(c, url, t) /\ c[url].data # {} THEN json_loads(c[url].data) ELSE NoData

\* ScraperCache.set(url, data, ttl) at time t (SETEX): the payload is stamped
\* with the time of writing; `ttl or self.default_ttl`.
cache_set(c, url, data, ttl, t) ==
    LET ttl_used == IF ttl # 0 THEN ttl ELSE default_ttl
    IN  [c EXCEPT ![url] = [data |-> json_dumps(data_with_meta(data, t)),
                            expires |-> t + ttl_used]]

\* ScraperCache.invalidate(url): DELETE of the URL's key.
cache_invalidate(c, url) == [c EXCEPT ![url] = NoEntry]

\* ScraperCache.clear_all(): DELETE of every key under scraper_cache:*.
cache_clear_all(c) == [u \in DOMAIN c |-> NoEntry]

\* Ghosts of the cache calls.
NoCacheOp == [op |-> "none", url |-> "none", res |-> NoData]
NoPut == [data |-> NoData, at |-> NoKey, ttl |-> 0]
CacheIdle ==
    /\ cache = [u \in Urls |-> NoEntry]
    /\ lastCache = NoCacheOp
    /\ put = [u \in Urls |-> NoPut]

CacheSet(url, data, ttl) ==
    /\ cache' = cache_set(cache, url, data, ttl, now)
    /\ lastCache' = [op |-> "set", url |-> url, res |-> NoData]
    /\ put' = [put EXCEPT ![url] = [data |-> data, at |-> now, ttl |-> ttl]]
    /\ UNCHANGED <<cbVars, max_retries, sp, taskVars, libVars>>

CacheGet(url) ==
    /\ lastCache' = [op |-> "get", url |-> url, res |-> cache_get(cache, url, now)]
    /\ UNCHANGED <<cbVars, cache, put, max_retries, sp, taskVars, libVars>>

CacheInvalidate(url) ==
    /\ cache' = cache_invalidate(cache, url)
    /\ lastCache' = [op |-> "invalidate", url |-> url, res |-> NoData]
    /\ put' = [put EXCEPT ![url] = NoPut]
    /\ UNCHANGED <<cbVars, max_retries, sp, taskVars, libVars>>

CacheClearAll ==
    /\ cache' = cache_clear_all(cache)
    /\ lastCache' = [op |-> "clear_all", url |-> "none", res |-> NoData]
    /\ put' = [u \in Urls |-> NoPut]
    /\ UNCHANGED <<cbVars, max_retries, sp, taskVars, libVars>>

\* Time passes between two cache calls.
CacheTick ==
    /\ now + TimeStep <= MaxTime
    /\ now' = now + TimeStep
    /\ lastCache' = NoCacheOp
    /\ UNCHANGED <<redis, wsite, wprobe, streak, lastOp, cache, put, max_retries, sp,
                   taskVars, libVars>>

CacheNext ==
    \/ \E url \in Urls, data \in CacheData, ttl \in CacheTTLs : CacheSet(url, data, ttl)
    \/ \E url \in Urls : CacheGet(url)
    \/ \E url \in Urls : CacheInvalidate(url)
    \/ CacheClearAll
    \/ CacheTick

-----------------------------------------------------------------------------
(* SiteDetector *)

\* detect_site on the URLs of the model.
detect_site(url) ==
    IF url = "https://www.fnac.com/a1" THEN "fnac"
    ELSE IF url = "https://www.cdiscount.com/b2" THEN "cdiscount"
    ELSE NoSite

-----------------------------------------------------------------------------
(* PriceScraper.scrape_product *)

retry_delay == 2

\* random.uniform(1.0, 3.0), in whole seconds: the two ends of the range.
JitterChoices == {1, 3}

\* What one session.get(url, timeout=15) can come to:
\*   timeout   requests.exceptions.Timeout
\*   error     any other exception (connection error, parser error)
\*   http      a response; raise_for_status raises HTTPError for 400..599
\* and with status 200 the page is one of
\*   gone      _is_product_unavailable(soup) is true
\*   nodata    the extractor returns None
\*   product   the extractor returns the product data
StatusCodes == {403, 404, 410, 500}

FetchOutcomes ==
    {[k |-> x, v |-> 0] : x \in {"timeout", "error"}}
        \cup {[k |-> "http", v |-> c] : c \in StatusCodes}
        \cup {[k |-> x, v |-> 200] : x \in {"gone", "gone_priced", "nodata", "product"}}

\* What scrape_with_playwright(url) can come to: the data, or None (it catches
\* every exception itself).
PlaywrightOutcomes == {"product", "none"}

\* requests.Response.__bool__ is Response.ok: false for every status that
\* raise_for_status raises on.
ResponseTruthy(status) == status < 400

NoStatus == 0

\* scraper.py:169  status_code = e.response.status_code if e.response else None
status_in_handler(status) == IF ResponseTruthy(status) THEN status ELSE NoStatus

\* scraper.py:201  status_code = ....status_code if ....response is not None else None
status_after_loop(status) == status

\* last_exception
NoExc == [type |-> "None", status |-> NoStatus]
ExcTimeout == [type |-> "Timeout", status |-> NoStatus]
ExcHTTP(status) == [type |-> "HTTPError", status |-> status]
ExcExtract == [type |-> "Exception: Failed to extract data", status |-> NoStatus]
ExcOther == [type |-> "Exception", status |-> NoStatus]

\* Events of the trace of one call.
EvFetch(out) == [e |-> "fetch", k |-> out.k, v |-> out.v]
EvSleep(why, secs) == [e |-> "sleep", k |-> why, v |-> secs]
EvPlaywright(res) == [e |-> "playwright", k |-> res, v |-> 0]
EvCheck(unavailable) ==
    [e |-> "check", k |-> IF unavailable THEN "unavailable" ELSE "available", v |-> 0]
EvExtract(found) == [e |-> "extract", k |-> IF found THEN "found" ELSE "nothing", v |-> 0]

\* A loop that stops one iteration early: range(1, max_retries).
more_attempts_short(attempt, n) == attempt < n - 1

\* for attempt in range(1, max_retries + 1): is there a next iteration?
more_attempts(attempt, n) == attempt < n

\* The jittered sleep that opens every iteration but the first.
jitter_sleep(attempt, jitter) ==
    IF attempt > 1 THEN <<EvSleep("jitter", jitter)>> ELSE <<>>

\* The sleep that closes an iteration left through an except clause (not
\* through `continue`).
backoff_sleep(attempt, n) ==
    IF attempt < n THEN <<EvSleep("backoff", retry_delay * attempt)>> ELSE <<>>

\* The extra sleep of the HTTPError clause.
antibot_sleep(status_code, attempt, n) ==
    IF status_code = 403 /\ attempt < n
    THEN <<EvSleep("antibot", retry_delay * attempt * 2)>> ELSE <<>>

\* The HTTPError clause raises ProductUnavailableError for these.
not_found(status_code) == status_code \in {404, 410}

\* One iteration of the loop of scrape_product on the outcome `out` of its
\* fetch: the call's state after it.
\* _is_product_unavailable(soup, url) on the document fetched.
is_product_unavailable(out) == out.k \in {"gone", "gone_priced"}

\* Whether the site's extractor finds a product in the document.
extract(out) == out.k \in {"product", "gone_priced"}

\* The extractor run on the document before the unavailability check.
document_step_extract_first(out) ==
    IF extract(out) THEN [events |-> <<EvExtract(TRUE)>>, kind |-> "data"]
    ELSE IF is_product_unavailable(out)
    THEN [events |-> <<EvExtract(FALSE), EvCheck(TRUE)>>, kind |-> "unavailable"]
    ELSE [events |-> <<EvExtract(FALSE), EvCheck(FALSE)>>, kind |-> "nodata"]

\* What one attempt does with the document of a 200 response: the
\* unavailability check, and the extractor when the check is negative.
document_step(out) ==
    IF is_product_unavailable(out)
    THEN [events |-> <<EvCheck(TRUE)>>, kind |-> "unavailable"]
    ELSE [events |-> <<EvCheck(FALSE), EvExtract(extract(out))>>,
          kind |-> IF extract(out) THEN "data" ELSE "nodata"]

attempt_step(c, out, jitter, n) ==
    LET a == c.attempt
        ev == c.events \o jitter_sleep(a, jitter) \o <<EvFetch(out)>>
        next(exc, sleeps) ==
            [c EXCEPT !.last_exception = exc,
                      !.events = ev \o sleeps,
                      !.attempt = a + 1,
                      !.pc = IF more_attempts(a, n) THEN "attempt" ELSE "exhausted"]
        return(res) == [c EXCEPT !.events = ev, !.pc = "done", !.result = res]
        doc == document_step(out)
    IN  CASE out.v = 200 ->
                IF doc.kind = "data"
                THEN [return([kind |-> "data", via |-> "requests"])
                          EXCEPT !.events = ev \o doc.events]
                ELSE IF doc.kind = "unavailable"
                THEN [return([kind |-> "unavailable", via |-> "requests"])
                          EXCEPT !.events = ev \o doc.events]
                ELSE [next(ExcExtract, <<>>) EXCEPT !.events = ev \o doc.events]
          [] out.k = "timeout" -> next(ExcTimeout, backoff_sleep(a, n))
          [] out.k = "error"   -> next(ExcOther, backoff_sleep(a, n))
          [] out.k = "http"    ->
                LET status_code == status_in_handler(out.v)
                IN  IF not_found(status_code)
                    THEN [return([kind |-> "unavailable", via |-> "requests"])
                              EXCEPT !.last_exception = ExcHTTP(out.v)]
                    ELSE next(ExcHTTP(out.v),
                              antibot_sleep(status_code, a, n) \o backoff_sleep(a, n))

\* The fallback test written with the truthiness test of the except clause
\* (`if e.response` for `if e.response is not None`).
should_try_playwright_truthy(exc) ==
    IF exc.type = "HTTPError" THEN status_in_handler(exc.status) = 403
    ELSE exc.type = "Exception: Failed to extract data"

\* scraper.py:196-208: is the browser fallback tried for this last_exception?
should_try_playwright(exc) ==
    IF exc.type = "HTTPError" THEN status_after_loop(exc.status) = 403
    ELSE exc.type = "Exception: Failed to extract data"

\* The code after the loop, on the outcome pw of the fallback if it is tried.
after_loop(c, pw) ==
    IF c.last_exception # NoExc /\ should_try_playwright(c.last_exception)
    THEN [c EXCEPT !.events = @ \o <<EvPlaywright(pw)>>,
                   !.pc = "done",
                   !.result = IF pw = "product" THEN [kind |-> "data", via |-> "playwright"]
                                                ELSE [kind |-> "none", via |-> "requests"]]
    ELSE [c EXCEPT !.pc = "done", !.result = [kind |-> "none", via |-> "requests"]]

Pending == [kind |-> "pending", via |-> "requests"]

ScIdleCall(url) ==
    [pc |-> "idle", url |-> url, attempt |-> 0, last_exception |-> NoExc,
     events |-> <<>>, result |-> Pending]

\* No scrape is ever started.
ScIdle ==
    /\ CacheIdle
    /\ max_retries = 3
    /\ sp = ScIdleCall("https://www.fnac.com/a1")

\* PriceScraper(max_retries, retry_delay) and the product URL it is called on.
ScInit ==
    /\ CacheIdle
    /\ max_retries \in 1..MaxRetries
    /\ \E u \in Urls : sp = ScIdleCall(u)

ScrapeStart ==
    /\ sp.pc \in {"idle", "done"}
    /\ sp' = [ScIdleCall(sp.url) EXCEPT !.pc = IF max_retries >= 1 THEN "attempt" ELSE "exhausted",
                                        !.attempt = 1]
    /\ UNCHANGED <<cbVars, cache, lastCache, put, max_retries, taskVars, libVars>>

ScrapeAttempt(out, jitter) ==
    /\ sp.pc = "attempt"
    /\ sp' = attempt_step(sp, out, jitter, max_retries)
    /\ UNCHANGED <<cbVars, cache, lastCache, put, max_retries, taskVars, libVars>>

ScrapeAfterLoop(pw) ==
    /\ sp.pc = "exhausted"
    /\ sp' = after_loop(sp, pw)
    /\ UNCHANGED <<cbVars, cache, lastCache, put, max_retries, taskVars, libVars>>

ScNext ==
    \/ ScrapeStart
    \/ \E out \in FetchOutcomes, jitter \in JitterChoices : ScrapeAttempt(out, jitter)
    \/ \E pw \in PlaywrightOutcomes : ScrapeAfterLoop(pw)

\* The other users of the shared store, while no call is in progress: a
\* request for the scraped URL's site fails, or a result for the URL is cached.
SiteFails ==
    /\ sp.pc \in {"idle", "done"}
    /\ LET s == detect_site(sp.url)
       IN  /\ Incr(redis[s].failures) <= get_site_thresholds(s).failure_threshold
           /\ redis' = [redis EXCEPT ![s] = record_failure(redis[s], s, now)]
    /\ UNCHANGED <<now, wsite, wprobe, streak, lastOp, scVars, taskVars, libVars>>

CachePut ==
    /\ sp.pc \in {"idle", "done"}
    /\ cache[sp.url] = NoEntry
    /\ \E data \in CacheData : cache' = cache_set(cache, sp.url, data, 0, now)
    /\ UNCHANGED <<cbVars, lastCache, put, max_retries, sp, taskVars, libVars>>

EnvNext == SiteFails \/ CachePut

-----------------------------------------------------------------------------
(* Products, price history and the price-check tasks (tasks.py) *)

Pids == 1..NumProducts

\* Prices seen on the product pages, and the target the owner has set.
Prices == {95, 100, 110}
TargetPrices == {100}

\* The price a product is created at in the model.
InitialPrices == {110}

FREQUENCIES == {6, 12, 24}

\* settings.SCRAPING_BATCH_SIZE and settings.MAX_PARALLEL_SCRAPERS (10 and 5 by
\* default), set low enough for a run over NumProducts products to need more
\* than one batch and more scrapes than workers.
SCRAPING_BATCH_SIZE == 2
MAX_PARALLEL_SCRAPERS == 1

Hour == 3600

\* unavailable_since = None
NoTime == -1

\* create_product: the product as scraped at time t, with its first history row.
NewProduct(price, target, freq, t) ==
    [current_price |-> price, target_price |-> target, check_frequency |-> freq,
     last_checked |-> t, is_available |-> TRUE, unavailable_since |-> NoTime]

\* The test left out: every scraped price is recorded.
should_record_price_always(h, new_price) == TRUE

\* PriceHistoryService.should_record_price: no row yet, or another price than
\* the most recent row.
should_record_price(h, new_price) ==
    Len(h) = 0 \/ h[Len(h)] # new_price

\* PriceHistoryService.record_price
record_price(h, new_price) == Append(h, new_price)

\* The test without its second half: an alert whenever the price is at or below
\* the target.
price_dropped_no_crossing(new_price, old_price, target) ==
    new_price <= target

\* The test with >= for >: a price that was at the target counts as a drop.
price_dropped_from_target(new_price, old_price, target) ==
    new_price <= target /\ old_price >= target

\* The test that precedes send_price_alert.
price_dropped(new_price, old_price, target) ==
    new_price <= target /\ old_price > target

\* What scrape_single_product_safe returns for a product: (product, price, None),
\* (product, None, ProductUnavailableError) or (product, None, Exception).
ScrapeResults ==
    {[kind |-> "price", price |-> x] : x \in Prices}
        \cup {[kind |-> "unavailable", price |-> 0], [kind |-> "error", price |-> 0]}

\* tasks.py:275-314: a scraped price is applied to product pid at time t.
\* db is the record of the three tables.
apply_price(db, pid, new_price, t) ==
    LET p == db.products[pid]
        old_price == p.current_price
        updated == [p EXCEPT !.is_available = TRUE,
                             !.unavailable_since = IF p.is_available THEN @ ELSE NoTime,
                             !.current_price = new_price,
                             !.last_checked = t]
    IN  [products |-> [db.products EXCEPT ![pid] = updated],
         history  |-> IF should_record_price(db.history[pid], new_price)
                      THEN [db.history EXCEPT ![pid] = record_price(@, new_price)]
                      ELSE db.history,
         alerts   |-> IF price_dropped(new_price, old_price, updated.target_price)
                      THEN Append(db.alerts, [pid |-> pid, new_price |-> new_price,
                                              old_price |-> old_price])
                      ELSE db.alerts]

\* The product is marked unavailable without the time it became so.
apply_unavailable_unstamped(db, pid, t) ==
    [db EXCEPT !.products[pid].is_available = FALSE, !.products[pid].last_checked = t]

\* tasks.py:260-269: ProductUnavailableError is applied to product pid at time t.
apply_unavailable(db, pid, t) ==
    LET p == db.products[pid]
    IN  IF p.is_available
        THEN [db EXCEPT !.products[pid] = [p EXCEPT !.is_available = FALSE,
                                                    !.unavailable_since = t,
                                                    !.last_checked = t]]
        ELSE db

\* A failed scrape is stamped as a check of the product.
apply_result_stamps_failure(db, pid, res, t) ==
    CASE res.kind = "price"       -> apply_price(db, pid, res.price, t)
      [] res.kind = "unavailable" -> apply_unavailable(db, pid, t)
      [] res.kind = "error"       -> [db EXCEPT !.products[pid].last_checked = t]

\* tasks.py:257-314: one result of a batch is processed.
apply_result(db, pid, res, t) ==
    CASE res.kind = "price"       -> apply_price(db, pid, res.price, t)
      [] res.kind = "unavailable" -> apply_unavailable(db, pid, t)
      [] res.kind = "error"       -> db

\* What email_service.send_price_alert can come to: it returns, or _send_email
\* re-raises the SMTP error.
MailOutcomes == {"sent", "raises"}

\* The exception of a failed scrape is re-raised when its result is processed.
scrape_error_raises(db, pid, res, mail) == res.kind = "error"

\* send_price_alert is called for this result and raises.
alert_raises(db, pid, res, mail) ==
    /\ res.kind = "price"
    /\ mail = "raises"
    /\ price_dropped(res.price, db.products[pid].current_price,
                     db.products[pid].target_price)

\* What is committed of apply_price when send_price_alert raises: the commit of
\* record_price has flushed the product's row with the history row; without it
\* the session is closed on the pending row (autocommit=False).
apply_price_uncommitted(db, pid, new_price, t) ==
    LET full == apply_price(db, pid, new_price, t)
    IN  IF should_record_price(db.history[pid], new_price)
        THEN full
        ELSE [db EXCEPT !.alerts = full.alerts]

\* One result is processed, with the outcome of the mail if one is sent.
apply_outcome(db, pid, res, mail, t) ==
    IF alert_raises(db, pid, res, mail)
    THEN apply_price_uncommitted(db, pid, res.price, t)
    ELSE apply_result(db, pid, res, t)

\* The score without its floor: negative below the target.
calculate_priority_signed(p) ==
    [num |-> p.current_price - p.target_price, den |-> p.target_price]

\* The division of calculate_priority raises ZeroDivisionError: the price is
\* above a target of 0.
priority_raises(p) == p.current_price > p.target_price /\ p.target_price = 0

\* calculate_priority as the fraction num/den: 0 at or below the target,
\* (current - target) / target above it.
calculate_priority(p) ==
    IF p.current_price <= p.target_price
    THEN [num |-> 0, den |-> 1]
    ELSE [num |-> p.current_price - p.target_price, den |-> p.target_price]

\* key(a) < key(b): the comparison of a sort that is not stable.
PriorityLess(a, b) == a.num * b.den < b.num * a.den

\* key(a) <= key(b), for fractions with positive denominators.
PriorityLeq(a, b) == a.num * b.den <= b.num * a.den

\* sorted(products, key=calculate_priority) on a sequence of product ids: a
\* stable sort, by insertion after the last element whose key is not greater.
RECURSIVE InsertByPriority(_, _, _)
InsertByPriority(ps, sorted, x) ==
    IF sorted = <<>> THEN <<x>>
    ELSE LET last == sorted[Len(sorted)]
         IN  IF PriorityLeq(calculate_priority(ps[last]), calculate_priority(ps[x]))
             THEN Append(sorted, x)
             ELSE Append(InsertByPriority(ps, SubSeq(sorted, 1, Len(sorted) - 1), x), last)

\* The rows left in the order of the query.
query_order(ps, seq) == seq

RECURSIVE SortByPriority(_, _)
SortByPriority(ps, seq) ==
    IF seq = <<>> THEN <<>>
    ELSE InsertByPriority(ps, SortByPriority(ps, SubSeq(seq, 1, Len(seq) - 1)), seq[Len(seq)])

\* The cutoff taken strictly: a product checked exactly frequency_hours ago waits.
DueProducts_strict(ps, frequency_hours, t) ==
    {pid \in Pids : /\ ps[pid].check_frequency = frequency_hours
                    /\ ps[pid].last_checked < t - frequency_hours * Hour}

\* tasks.py:225-233: the products of the bucket that are due at time t.
DueProducts(ps, frequency_hours, t) ==
    {pid \in Pids : /\ ps[pid].check_frequency = frequency_hours
                    /\ ps[pid].last_checked <= t - frequency_hours * Hour}

\* The orders in which the query may return a set of rows (it has no ORDER BY).
Orders(S) ==
    {q \in [1..Cardinality(S) -> S] : \A i, j \in 1..Cardinality(S) : i # j => q[i] # q[j]}

\* A slice one element too long: products_sorted[i : i + batch_size + 1].
Take_one_more(seq, n) == SubSeq(seq, 1, IF Len(seq) < n + 1 THEN Len(seq) ELSE n + 1)

Take(seq, n) == SubSeq(seq, 1, IF Len(seq) < n THEN Len(seq) ELSE n)
Drop(seq, n) == SubSeq(seq, (IF Len(seq) < n THEN Len(seq) ELSE n) + 1, Len(seq))

NoRun == [pc |-> "idle", frequency |-> 0, products |-> <<>>, rest |-> <<>>,
          todo |-> <<>>, inflight |-> {}, results |-> <<>>]

NoTask == [op |-> "none", pid |-> 0, kind |-> "none", price |-> 0]

NoPre == [current_price |-> 0, target_price |-> 0, check_frequency |-> 0,
          last_checked |-> NoTime, is_available |-> TRUE, unavailable_since |-> NoTime]

NoSched == [selected |-> <<>>, started |-> <<>>, applied |-> <<>>, aborted |-> FALSE]

DB == [products |-> products, history |-> history, alerts |-> alerts]

\* No product is tracked.
TaskIdle ==
    /\ products = [pid \in Pids |-> NewProduct(100, 100, 24, 0)]
    /\ history = [pid \in Pids |-> <<100>>]
    /\ alerts = <<>>
    /\ stats = <<>>
    /\ run = NoRun
    /\ checks = 0
    /\ lastTask = NoTask
    /\ lastPre = NoPre
    /\ sched = NoSched

\* The products as create_product leaves them: the scraped price (above the
\* target), the owner's target and frequency, and the first row of the history.
\* The ids are handed out by bucket (an id has no other meaning).
TaskInit ==
    /\ \E price \in [Pids -> InitialPrices], target \in [Pids -> TargetPrices],
          freq \in [Pids -> {6, 12}] :
            /\ \A p, q \in Pids : p < q => freq[p] <= freq[q]
            /\ products = [pid \in Pids |-> NewProduct(price[pid], target[pid], freq[pid], 0)]
            /\ history = [pid \in Pids |-> <<price[pid]>>]
    /\ alerts = <<>>
    /\ stats = <<>>
    /\ run = NoRun
    /\ checks = 0
    /\ lastTask = NoTask
    /\ lastPre = NoPre
    /\ sched = NoSched

\* Current and target prices of the products the scheduler sorts.
PriorityPrices == {95, 110, 120}
PriorityTargets == {100, 110}

\* Products of the 6-hour bucket at any of these prices and targets.
PrioInit ==
    /\ \E price \in [Pids -> PriorityPrices], target \in [Pids -> PriorityTargets] :
            /\ products = [pid \in Pids |-> NewProduct(price[pid], target[pid], 6, 0)]
            /\ history = [pid \in Pids |-> <<price[pid]>>]
    /\ alerts = <<>>
    /\ stats = <<>>
    /\ run = NoRun
    /\ checks = 0
    /\ lastTask = NoTask
    /\ lastPre = NoPre
    /\ sched = NoSched

\* Targets as ProductCreate accepts them: any float, 0 included.
AcceptedTargets == {0, 100}

\* Products of the 6-hour bucket with any accepted target.
AcceptedInit ==
    /\ \E price \in [Pids -> PriorityPrices], target \in [Pids -> AcceptedTargets] :
            /\ products = [pid \in Pids |-> NewProduct(price[pid], target[pid], 6, 0)]
            /\ history = [pid \in Pids |-> <<price[pid]>>]
    /\ alerts = <<>>
    /\ stats = <<>>
    /\ run = NoRun
    /\ checks = 0
    /\ lastTask = NoTask
    /\ lastPre = NoPre
    /\ sched = NoSched

\* Products of the 6-hour bucket, with the first row of their history or, when
\* create_product stopped between its commit and its record_price, without it.
HistInit ==
    /\ products = [pid \in Pids |-> NewProduct(110, 100, 6, 0)]
    /\ \E recorded \in BOOLEAN :
          history = [pid \in Pids |-> IF recorded THEN <<110>> ELSE <<>>]
    /\ alerts = <<>>
    /\ stats = <<>>
    /\ run = NoRun
    /\ checks = 0
    /\ lastTask = NoTask
    /\ lastPre = NoPre
    /\ sched = NoSched

\* check_prices_by_frequency(frequency_hours) starts: the due products are
\* selected and sorted, and the first batch is handed to the thread pool.
RunStart(frequency_hours) ==
    /\ run.pc = "idle"
    /\ \E order \in Orders(DueProducts(products, frequency_hours, now)) :
       IF \E i \in 1..Len(order) : priority_raises(products[order[i]])
       THEN \* sorted() lets the key's exception through: the task ends
            /\ run' = NoRun
            /\ sched' = [NoSched EXCEPT !.aborted = TRUE]
       ELSE LET products_sorted == SortByPriority(products, order)
            IN  /\ run' = IF products_sorted = <<>> THEN NoRun
                          ELSE [pc |-> "scraping", frequency |-> frequency_hours,
                                products |-> order,
                                rest |-> Drop(products_sorted, SCRAPING_BATCH_SIZE),
                                todo |-> Take(products_sorted, SCRAPING_BATCH_SIZE),
                                inflight |-> {}, results |-> <<>>]
                /\ sched' = [NoSched EXCEPT !.selected = products_sorted]
    /\ lastTask' = NoTask
    /\ lastPre' = NoPre
    /\ UNCHANGED <<cbVars, scVars, dbVars, checks, libVars>>

\* A free worker of the pool takes the next submitted product.
WorkerStart ==
    /\ run.pc = "scraping"
    /\ run.todo # <<>>
    /\ Cardinality(run.inflight) < MAX_PARALLEL_SCRAPERS
    /\ run' = [run EXCEPT !.todo = Tail(@), !.inflight = @ \cup {Head(run.todo)}]
    /\ sched' = [sched EXCEPT !.started = Append(@, Head(run.todo))]
    /\ lastTask' = NoTask
    /\ lastPre' = NoPre
    /\ UNCHANGED <<cbVars, scVars, dbVars, checks, libVars>>

\* scrape_single_product_safe returns for a product; as_completed hands the
\* result over.  When the last one is in, scrape_products_parallel returns.
WorkerFinish(pid, res) ==
    /\ run.pc = "scraping"
    /\ pid \in run.inflight
    /\ checks < MaxChecks
    /\ checks' = checks + 1
    /\ run' = [run EXCEPT !.inflight = @ \ {pid},
                          !.results = Append(@, [pid |-> pid, res |-> res]),
                          !.pc = IF run.todo = <<>> /\ run.inflight = {pid}
                                 THEN "applying" ELSE "scraping"]
    /\ lastTask' = NoTask
    /\ lastPre' = NoPre
    /\ UNCHANGED <<cbVars, scVars, dbVars, sched, libVars>>

\* The next result of the batch is processed; after the last one the next batch
\* is handed to the pool, or the run ends.  Nothing in the loop catches a raising
\* send_price_alert: the task ends there, through `finally: db.close()`.
ApplyResult(mail) ==
    /\ run.pc = "applying"
    /\ run.results # <<>>
    /\ LET r == Head(run.results)
           db == apply_outcome(DB, r.pid, r.res, mail, now)
           raised == alert_raises(DB, r.pid, r.res, mail)
           last == Len(run.results) = 1
       IN  /\ products' = db.products
           /\ history' = db.history
           /\ alerts' = db.alerts
           /\ lastTask' = [op |-> "apply", pid |-> r.pid, kind |-> r.res.kind,
                           price |-> r.res.price]
           /\ lastPre' = products[r.pid]
           /\ sched' = IF raised \/ (last /\ run.rest = <<>>)
                       THEN [NoSched EXCEPT !.aborted = raised]
                       ELSE [sched EXCEPT !.applied = Append(@, r.pid)]
           /\ run' = IF raised THEN NoRun
                     ELSE IF ~last THEN [run EXCEPT !.results = Tail(@)]
                     ELSE IF run.rest = <<>> THEN NoRun
                     ELSE [run EXCEPT !.results = <<>>,
                                      !.pc = "scraping",
                                      !.todo = Take(run.rest, SCRAPING_BATCH_SIZE),
                                      !.rest = Drop(run.rest, SCRAPING_BATCH_SIZE)]
    /\ UNCHANGED <<cbVars, scVars, stats, checks, libVars>>

\* The mail server takes the connection of the next result's alert and never
\* answers: smtplib.SMTP(host, port) is opened without a timeout, so
\* send_price_alert does not return and the run stays in its loop, the price
\* committed and the session open.
ApplyHangs ==
    /\ run.pc = "applying"
    /\ run.results # <<>>
    /\ LET r == Head(run.results)
           db == apply_outcome(DB, r.pid, r.res, "raises", now)
       IN  /\ alert_raises(DB, r.pid, r.res, "raises")
           /\ products' = db.products
           /\ history' = db.history
           /\ alerts' = db.alerts
           /\ lastTask' = [op |-> "apply", pid |-> r.pid, kind |-> r.res.kind,
                           price |-> r.res.price]
           /\ lastPre' = products[r.pid]
    /\ run' = [run EXCEPT !.pc = "mailing"]
    /\ UNCHANGED <<cbVars, scVars, stats, checks, sched, libVars>>

\* check_single_product(product_id), between two runs: nothing in the
\* repository sends it while a run holds the product in its session.
CheckSingleProduct(pid, res, mail) ==
    /\ run.pc = "idle"
    /\ checks < MaxChecks
    /\ LET db == apply_outcome(DB, pid, res, mail, now)
       IN  /\ products' = db.products
           /\ history' = db.history
           /\ alerts' = db.alerts
    /\ checks' = checks + 1
    /\ lastTask' = [op |-> "apply", pid |-> pid, kind |-> res.kind, price |-> res.price]
    /\ lastPre' = products[pid]
    /\ UNCHANGED <<cbVars, scVars, stats, run, sched, libVars>>

\* Six hours pass between two runs.
HoursPass ==
    /\ run.pc = "idle"
    /\ now + 6 * Hour <= MaxHours * Hour
    /\ now' = now + 6 * Hour
    /\ lastTask' = NoTask
    /\ lastPre' = NoPre
    /\ UNCHANGED <<redis, wsite, wprobe, streak, lastOp, scVars, dbVars, run, checks, sched, libVars>>

TaskNext ==
    \/ \E f \in FREQUENCIES : RunStart(f)
    \/ WorkerStart
    \/ \E pid \in Pids, res \in ScrapeResults : WorkerFinish(pid, res)
    \/ \E mail \in MailOutcomes : ApplyResult(mail)
    \/ \E pid \in Pids, res \in ScrapeResults, mail \in MailOutcomes :
            CheckSingleProduct(pid, res, mail)
    \/ HoursPass

\* The seconds a scrape takes, from the submission of the product to its result.
ScrapeSeconds == 1

\* beat_schedule: check_prices_by_frequency(f) is sent every f * 3600 seconds.
BeatRun(frequency_hours) ==
    /\ now % (frequency_hours * Hour) = 0
    /\ RunStart(frequency_hours)

\* scrape_single_product_safe returns for a product after the time its
\* requests took.
ScrapeReturns(pid, res) ==
    /\ run.pc = "scraping"
    /\ pid \in run.inflight
    /\ checks < MaxChecks
    /\ checks' = checks + 1
    /\ now' = now + ScrapeSeconds
    /\ run' = [run EXCEPT !.inflight = @ \ {pid},
                          !.results = Append(@, [pid |-> pid, res |-> res]),
                          !.pc = IF run.todo = <<>> /\ run.inflight = {pid}
                                 THEN "applying" ELSE "scraping"]
    /\ lastTask' = NoTask
    /\ lastPre' = NoPre
    /\ UNCHANGED <<redis, wsite, wprobe, streak, lastOp, scVars, dbVars, sched, libVars>>

\* The worker is idle until the next entry of the schedule comes up.
BeatWait ==
    /\ run.pc = "idle"
    /\ LET next == ((now \div (6 * Hour)) + 1) * 6 * Hour
       IN  /\ next <= MaxHours * Hour
           /\ now' = next
    /\ lastTask' = NoTask
    /\ lastPre' = NoPre
    /\ UNCHANGED <<redis, wsite, wprobe, streak, lastOp, scVars, dbVars, run, checks, sched, libVars>>

BeatNext ==
    \/ \E f \in FREQUENCIES : BeatRun(f)
    \/ WorkerStart
    \/ \E pid \in Pids, res \in ScrapeResults : ScrapeReturns(pid, res)
    \/ \E mail \in MailOutcomes : ApplyResult(mail)
    \/ BeatWait

-----------------------------------------------------------------------------
(* ProxyRotator *)

Proxies == {"http://p1:8080", "http://p2:8080", "http://p3:8080"}

\* The longest list a rotator is constructed with.
MaxPool == 2

NoProxy == "none"
IndexError == "IndexError"

\* list.remove(x): the first occurrence of x is dropped.
RECURSIVE list_remove(_, _)
list_remove(l, x) ==
    IF l = <<>> THEN <<>>
    ELSE IF Head(l) = x THEN Tail(l)
    ELSE <<Head(l)>> \o list_remove(Tail(l), x)

\* x in list
list_in(x, l) == \E i \in 1..Len(l) : l[i] = x

\* ProxyRotator.get_next(): the proxy returned (or None, or the IndexError
\* of proxy_list[current_index]) and the next current_index.
get_next(pl, idx, en) ==
    IF ~en THEN [res |-> NoProxy, current_index |-> idx]
    ELSE IF idx >= Len(pl) THEN [res |-> IndexError, current_index |-> idx]
    ELSE [res |-> pl[idx + 1], current_index |-> (idx + 1) % Len(pl)]

\* ProxyRotator.get_random(): the proxies random.choice can return, or None.
get_random(pl, en) ==
    IF ~en THEN {NoProxy} ELSE {pl[i] : i \in 1..Len(pl)}

\* ProxyRotator.add_proxy(proxy_url)
add_proxy(pl, en, proxy_url) ==
    IF ~list_in(proxy_url, pl)
    THEN [proxy_list |-> Append(pl, proxy_url), enabled |-> TRUE]
    ELSE [proxy_list |-> pl, enabled |-> en]

\* ProxyRotator.remove_proxy(proxy_url)
remove_proxy(pl, en, proxy_url) ==
    IF list_in(proxy_url, pl)
    THEN [proxy_list |-> list_remove(pl, proxy_url),
          enabled |-> Len(list_remove(pl, proxy_url)) > 0]
    ELSE [proxy_list |-> pl, enabled |-> en]

NoProxyOp == [op |-> "none", arg |-> NoProxy, res |-> NoProxy]
NoCalls == [start |-> 0, res |-> <<>>]

\* ProxyRotator(proxy_list): any list of proxies, as given or as read from
\* settings.PROXY_LIST.
ProxyInit ==
    /\ \E n \in 0..MaxPool : proxy_list \in [1..n -> Proxies]
    /\ current_index = 0
    /\ enabled = (Len(proxy_list) > 0)
    /\ lastProxy = NoProxyOp
    /\ calls = NoCalls

\* A rotator without proxies that nothing calls.
ProxyIdle ==
    /\ proxy_list = <<>>
    /\ current_index = 0
    /\ enabled = FALSE
    /\ lastProxy = NoProxyOp
    /\ calls = NoCalls

\* One call of get_next; at most one more than the pool has proxies between
\* two changes of the pool.
GetNext ==
    /\ Len(calls.res) <= Len(proxy_list)
    /\ LET r == get_next(proxy_list, current_index, enabled)
       IN  /\ current_index' = r.current_index
           /\ lastProxy' = [op |-> "get_next", arg |-> NoProxy, res |-> r.res]
           /\ calls' = [start |-> IF calls.res = <<>> THEN current_index ELSE calls.start,
                        res |-> Append(calls.res, r.res)]
    /\ UNCHANGED <<cbVars, scVars, taskVars, proxy_list, enabled, page, lastPage, wk, ck, breaker>>

GetRandom ==
    /\ \E r \in get_random(proxy_list, enabled) :
          lastProxy' = [op |-> "get_random", arg |-> NoProxy, res |-> r]
    /\ UNCHANGED <<cbVars, scVars, taskVars, proxy_list, current_index, enabled, calls, page, lastPage, wk, ck, breaker>>

AddProxy(proxy_url) ==
    /\ LET r == add_proxy(proxy_list, enabled, proxy_url)
       IN  /\ proxy_list' = r.proxy_list
           /\ enabled' = r.enabled
    /\ lastProxy' = [op |-> "add_proxy", arg |-> proxy_url, res |-> NoProxy]
    /\ calls' = NoCalls
    /\ UNCHANGED <<cbVars, scVars, taskVars, current_index, page, lastPage, wk, ck, breaker>>

RemoveProxy(proxy_url) ==
    /\ LET r == remove_proxy(proxy_list, enabled, proxy_url)
       IN  /\ proxy_list' = r.proxy_list
           /\ enabled' = r.enabled
    /\ lastProxy' = [op |-> "remove_proxy", arg |-> proxy_url, res |-> NoProxy]
    /\ calls' = NoCalls
    /\ UNCHANGED <<cbVars, scVars, taskVars, current_index, page, lastPage, wk, ck, breaker>>

ProxyNext ==
    \/ GetNext
    \/ GetRandom
    \/ \E proxy_url \in Proxies : AddProxy(proxy_url)
    \/ \E proxy_url \in Proxies : RemoveProxy(proxy_url)

-----------------------------------------------------------------------------
(* Product pages: _is_product_unavailable and _scrape_amazon *)

\* The most nodes a document of the model has.
MaxNodes == 3

\* Strings are sequences of characters.
lower_map ==
    ("A" :> "a") @@ ("B" :> "b") @@ ("C" :> "c") @@ ("D" :> "d") @@ ("E" :> "e") @@
    ("F" :> "f") @@ ("G" :> "g") @@ ("H" :> "h") @@ ("I" :> "i") @@ ("J" :> "j") @@
    ("K" :> "k") @@ ("L" :> "l") @@ ("M" :> "m") @@ ("N" :> "n") @@ ("O" :> "o") @@
    ("P" :> "p") @@ ("Q" :> "q") @@ ("R" :> "r") @@ ("S" :> "s") @@ ("T" :> "t") @@
    ("U" :> "u") @@ ("V" :> "v") @@ ("W" :> "w") @@ ("X" :> "x") @@ ("Y" :> "y") @@
    ("Z" :> "z")

digit_map ==
    ("0" :> 0) @@ ("1" :> 1) @@ ("2" :> 2) @@ ("3" :> 3) @@ ("4" :> 4) @@ ("5" :> 5) @@ ("6" :> 6) @@ ("7" :> 7) @@ ("8" :> 8) @@ ("9" :> 9)

\* str.lower()
str_lower(str) ==
    [i \in 1..Len(str) |-> IF str[i] \in DOMAIN lower_map THEN lower_map[str[i]] ELSE str[i]]

\* sub in str
str_in(sub, str) ==
    \E i \in 0..(Len(str) - Len(sub)) : SubSeq(str, i + 1, i + Len(sub)) = sub

\* The characters of str that satisfy keep, in order.
RECURSIVE str_filter(_, _)
str_filter(str, keep) ==
    IF str = <<>> THEN <<>>
    ELSE (IF Head(str) \in keep THEN <<Head(str)>> ELSE <<>>) \o str_filter(Tail(str), keep)

\* The characters of str that are not in drop, in order.
RECURSIVE str_remove(_, _)
str_remove(str, drop) ==
    IF str = <<>> THEN <<>>
    ELSE (IF Head(str) \in drop THEN <<>> ELSE <<Head(str)>>) \o str_remove(Tail(str), drop)

\* A parser that drops the comma instead of reading it as the decimal point.
comma_dropped(str) == str_remove(str, {","})

\* str.replace(",", ".")
comma_to_dot(str) == [i \in 1..Len(str) |-> IF str[i] = "," THEN "." ELSE str[i]]

\* int() of a string of digits
RECURSIVE digits_value(_)
digits_value(str) ==
    IF str = <<>> THEN 0
    ELSE 10 * digits_value(SubSeq(str, 1, Len(str) - 1)) + digit_map[str[Len(str)]]

NoPrice == -1

\* float() of a string of digits and dots, in cents (two decimals are kept);
\* NoPrice for the ValueError of an empty string or a second dot.
parse_float(str) ==
    LET dots == {i \in 1..Len(str) : str[i] = "."}
        dot == IF dots = {} THEN Len(str) + 1 ELSE CHOOSE i \in dots : TRUE
        whole == SubSeq(str, 1, dot - 1)
        decimals == SubSeq(str, dot + 1, Len(str))
        cents == IF Len(decimals) = 0 THEN 0
                 ELSE IF Len(decimals) = 1 THEN 10 * digits_value(decimals)
                 ELSE digits_value(SubSeq(decimals, 1, 2))
    IN  IF Cardinality(dots) > 1 \/ Len(str) = Cardinality(dots) THEN NoPrice
        ELSE 100 * digits_value(whole) + cents

\* The price blocks of an Amazon page: the element that holds the block, and
\* the texts of its span.a-price-whole and span.a-price-fraction.
PriceNode(container, whole, fraction) ==
    [kind |-> "price", container |-> container, id |-> "", whole |-> whole,
     fraction |-> fraction, text |-> whole \o fraction, stock |-> "none"]

\* A block of text, with what it tells a reader about the stock.
TextNode(id, text, stock) ==
    [kind |-> "text", container |-> "body", id |-> id, whole |-> <<>>,
     fraction |-> <<>>, text |-> text, stock |-> stock]

CoreContainers == {"corePrice_feature_div", "corePriceDisplay_desktop_feature_div"}

Nodes ==
    {PriceNode("corePrice_feature_div", <<"1", "3", ",">>, <<"9", "9">>),
     PriceNode("olp-upd-new", <<"1", "0", ",">>, <<"7", "9">>),
     PriceNode("snsPrice", <<"1", "1", ",">>, <<"4", "9">>),
     PriceNode("body", <<"4", "0", "4", ",">>, <<"0", "0">>),
     TextNode("availability", <<"E", "n", " ", "s", "t", "o", "c", "k">>, "in"),
     TextNode("availability", <<"I", "n", "d", "i", "s", "p", "o", "n", "i", "b", "l", "e">>, "out"),
     TextNode("", <<"R", "u", "p", "t", "u", "r", "e", " ", "d", "e", " ", "s", "t", "o", "c", "k">>, "out"),
     TextNode("", <<"O", "U", "T", " ", "O", "F", " ", "S", "T", "O", "C", "K">>, "out")}

PageUrls == {"https://www.amazon.fr/dp/B0", "https://www.fnac.com/a1"}

\* "amazon" in url.lower()
is_amazon(url) == url = "https://www.amazon.fr/dp/B0"

\* The indicators of unavailable_texts that the texts of the model can hold.
unavailable_texts ==
    {<<"o", "u", "t", " ", "o", "f", " ", "s", "t", "o", "c", "k">>,
     <<"r", "u", "p", "t", "u", "r", "e", " ", "d", "e", " ", "s", "t", "o", "c", "k">>,
     <<"s", "o", "l", "d", " ", "o", "u", "t">>,
     <<"4", "0", "4">>}

\* soup.get_text(): the texts of the nodes in document order, a line each.
RECURSIVE get_text(_)
get_text(doc) ==
    IF doc = <<>> THEN <<>> ELSE Head(doc).text \o <<" ">> \o get_text(Tail(doc))

\* soup.find(...): of the nodes that match, the first in document order, or 0
\* for None.
find(matches) ==
    IF matches = {} THEN 0 ELSE CHOOSE i \in matches : \A j \in matches : i <= j

\* _is_product_unavailable(soup, url): the indicators looked up in the page
\* text, then the availability element of an Amazon page.  (No page of the
\* model has the elements of the other sites' tests.)
page_is_unavailable(doc, url) ==
    LET page_text == str_lower(get_text(doc))
        availability_elem == find({i \in 1..Len(doc) : doc[i].id = "availability"})
        availability_text == str_lower(doc[availability_elem].text)
    IN  \/ \E indicator \in unavailable_texts : str_in(indicator, page_text)
        \/ /\ is_amazon(url)
           /\ availability_elem # 0
           /\ \/ str_in(<<"u", "n", "a", "v", "a", "i", "l", "a", "b", "l", "e">>, availability_text)
              \/ str_in(<<"i", "n", "d", "i", "s", "p", "o", "n", "i", "b", "l", "e">>, availability_text)

\* The price a whole and a fraction text come to in _scrape_amazon.
amazon_price(whole, fraction) ==
    LET price_str == str_remove(comma_to_dot(whole), {" "}) \o fraction
    IN  parse_float(str_filter(price_str, DOMAIN digit_map \cup {"."}))

\* _scrape_amazon(soup): the first span.a-price-whole of the document and the
\* first span.a-price-fraction of the document; the price in cents, or NoPrice
\* for None.
scrape_amazon(doc) ==
    LET price_whole ==
            find({i \in 1..Len(doc) : doc[i].kind = "price" /\ doc[i].whole # <<>>})
        price_fraction ==
            find({i \in 1..Len(doc) : doc[i].kind = "price" /\ doc[i].fraction # <<>>})
    IN  IF price_whole = 0 THEN NoPrice
        ELSE amazon_price(doc[price_whole].whole,
                          IF price_fraction = 0 THEN <<>> ELSE doc[price_fraction].fraction)

\* The price a span.f-priceBox-price text comes to in _scrape_fnac ("euro" is
\* the one character of the euro sign): the sign is removed, the comma becomes
\* a dot, the spaces are removed, what is left of non-digits is removed, float().
fnac_normalize(text) ==
    str_filter(str_remove(comma_to_dot(str_remove(text, {"euro"})), {" "}),
               DOMAIN digit_map \cup {"."})

fnac_price(text) == parse_float(fnac_normalize(text))

\* _scrape_fnac(soup): the first span.f-priceBox-price of the document.
scrape_fnac(doc) ==
    LET price_elem == find({i \in 1..Len(doc) : doc[i].container = "f-priceBox-price"})
    IN  IF price_elem = 0 THEN NoPrice ELSE fnac_price(doc[price_elem].text)

\* The amounts the shops show, in units and cents, and the ways they write
\* them: comma or dot before the decimals, two decimals or one, the thousands
\* set off by a space or not, the euro sign after the amount or not.
PriceUnits == {0, 9, 14, 99, 1234}
PriceCents == {0, 5, 34, 50, 56, 99}
Separators == {",", "."}
PriceStyles ==
    [sep : Separators, decimals : {1, 2}, grouped : BOOLEAN, euro : BOOLEAN]

digit_chars == <<"0", "1", "2", "3", "4", "5", "6", "7", "8", "9">>

\* str(n) of a natural number
RECURSIVE int_str(_)
int_str(n) ==
    IF n < 10 THEN <<digit_chars[n + 1]>>
    ELSE int_str(n \div 10) \o <<digit_chars[(n % 10) + 1]>>

\* The text of a price of `units` units and `cents` cents in a style.
price_text(units, cents, style) ==
    LET digits == int_str(units)
        whole == IF style.grouped /\ Len(digits) > 3
                 THEN SubSeq(digits, 1, Len(digits) - 3) \o <<" ">>
                          \o SubSeq(digits, Len(digits) - 2, Len(digits))
                 ELSE digits
        decimals == IF style.decimals = 1 /\ cents % 10 = 0
                    THEN <<digit_chars[(cents \div 10) + 1]>>
                    ELSE <<digit_chars[(cents \div 10) + 1], digit_chars[(cents % 10) + 1]>>
    IN  whole \o <<style.sep>> \o decimals \o (IF style.euro THEN <<" ", "euro">> ELSE <<>>)

NoPageOp == [op |-> "none", res |-> FALSE]

\* No page is looked at.
PageIdle ==
    /\ page = [url |-> "https://www.fnac.com/a1", doc |-> <<>>]
    /\ lastPage = NoPageOp

\* Any page of up to MaxNodes nodes.
PageInit ==
    /\ \E url \in PageUrls, n \in 0..MaxNodes :
            \E doc \in [1..n -> Nodes] : page = [url |-> url, doc |-> doc]
    /\ lastPage = NoPageOp

IsProductUnavailable ==
    /\ lastPage' = [op |-> "is_product_unavailable", res |-> page_is_unavailable(page.doc, page.url)]
    /\ UNCHANGED <<cbVars, scVars, taskVars, proxy_list, current_index, enabled, lastProxy,
                   calls, page, wk, ck, breaker>>

ScrapeAmazon ==
    /\ is_amazon(page.url)
    /\ lastPage' = [op |-> "scrape_amazon", res |-> scrape_amazon(page.doc)]
    /\ UNCHANGED <<cbVars, scVars, taskVars, proxy_list, current_index, enabled, lastProxy,
                   calls, page, wk, ck, breaker>>

PageNext == IsProductUnavailable \/ ScrapeAmazon

\* A Fnac page that shows one price, written in any of the styles.
PriceInit ==
    /\ \E units \in PriceUnits, cents \in PriceCents, style \in PriceStyles :
            page = [url |-> "https://www.fnac.com/a1",
                    doc |-> <<PriceNode("f-priceBox-price",
                                        price_text(units, cents, style), <<>>)>>]
    /\ lastPage = NoPageOp

ScrapeFnac ==
    /\ ~is_amazon(page.url)
    /\ lastPage.op = "none"
    /\ lastPage' = [op |-> "scrape_fnac", res |-> scrape_fnac(page.doc)]
    /\ UNCHANGED <<cbVars, scVars, taskVars, proxy_list, current_index, enabled, lastProxy,
                   calls, page, wk, ck, breaker>>

PriceNext == ScrapeFnac

\* Nothing calls the rotator or looks at a page.
\* The two tasks that check a product: a run of check_prices_by_frequency
\* and check_single_product.
Checkers == {"run", "single"}

\* A task that has not queried the product yet.
NoCheck == [pc |-> "idle", row |-> NoPre, new_price |-> 0]

CheckersIdle == ck = [c \in Checkers |-> NoCheck]

\* A worker between two calls, and the locals of a call: the state it read
\* and the value INCR returned.
IdleWk == [pc |-> "idle", state |-> Nil, failures |-> 0]

RaceIdle == wk = [w \in Workers |-> IdleWk]

LibIdle == ProxyIdle /\ PageIdle /\ RaceIdle /\ CheckersIdle

-----------------------------------------------------------------------------
(* CircuitBreaker, one store operation at a time *)

\* The site the concurrent workers call.
RaceSite == "fnac"

\* is_available(site), operation by operation: GET state; on OPEN, GET
\* last_failure and the comparison with utcnow(); SET state HALF_OPEN; SET
\* successes 0.
IsAvailableStep(w) ==
    LET r == redis[RaceSite]
        timeout == get_site_thresholds(RaceSite).recovery_timeout
        return(allowed) ==
            /\ wk' = [wk EXCEPT ![w] = IdleWk]
            /\ wsite' = [wsite EXCEPT ![w] = IF allowed THEN RaceSite ELSE NoSite]
        goto(pc) ==
            /\ wk' = [wk EXCEPT ![w].pc = pc]
            /\ UNCHANGED wsite
    IN  /\ \/ /\ wk[w].pc = "idle"
              /\ wsite[w] = NoSite
              /\ IF get_state(r) = STATE_OPEN THEN goto("a_last_failure") ELSE return(TRUE)
              /\ UNCHANGED redis
           \/ /\ wk[w].pc = "a_last_failure"
              /\ IF r.last_failure # NoKey /\ now >= r.last_failure + timeout
                 THEN goto("a_set_state") ELSE return(FALSE)
              /\ UNCHANGED redis
           \/ /\ wk[w].pc = "a_set_state"
              /\ redis' = [redis EXCEPT ![RaceSite].state = STATE_HALF_OPEN]
              /\ goto("a_set_successes")
           \/ /\ wk[w].pc = "a_set_successes"
              /\ redis' = [redis EXCEPT ![RaceSite].successes = 0]
              /\ return(TRUE)
        /\ UNCHANGED <<now, wprobe, streak, lastOp, scVars, taskVars, proxy_list,
                       current_index, enabled, lastProxy, calls, page, lastPage, ck, breaker>>

\* record_success(site), operation by operation: GET state; in HALF_OPEN, INCR
\* successes and, at the threshold, SET state CLOSED and the three DELETEs; in
\* CLOSED, SET failures 0.
RecordSuccessStep(w) ==
    LET r == redis[RaceSite]
        done == wk' = [wk EXCEPT ![w] = IdleWk] /\ wsite' = [wsite EXCEPT ![w] = NoSite]
        goto(pc) == wk' = [wk EXCEPT ![w].pc = pc] /\ UNCHANGED wsite
    IN  /\ \/ /\ wk[w].pc = "idle"
              /\ wsite[w] = RaceSite
              /\ IF get_state(r) = STATE_HALF_OPEN THEN goto("s_incr")
                 ELSE IF get_state(r) = STATE_CLOSED THEN goto("s_set_failures")
                 ELSE done
              /\ UNCHANGED redis
           \/ /\ wk[w].pc = "s_incr"
              /\ redis' = [redis EXCEPT ![RaceSite].successes = Incr(@)]
              /\ IF Incr(r.successes) >= success_threshold THEN goto("s_set_state") ELSE done
           \/ /\ wk[w].pc = "s_set_state"
              /\ redis' = [redis EXCEPT ![RaceSite].state = STATE_CLOSED]
              /\ goto("s_del_failures")
           \/ /\ wk[w].pc = "s_del_failures"
              /\ redis' = [redis EXCEPT ![RaceSite].failures = NoKey]
              /\ goto("s_del_successes")
           \/ /\ wk[w].pc = "s_del_successes"
              /\ redis' = [redis EXCEPT ![RaceSite].successes = NoKey]
              /\ goto("s_del_last_failure")
           \/ /\ wk[w].pc = "s_del_last_failure"
              /\ redis' = [redis EXCEPT ![RaceSite].last_failure = NoKey]
              /\ done
           \/ /\ wk[w].pc = "s_set_failures"
              /\ redis' = [redis EXCEPT ![RaceSite].failures = 0]
              /\ done
        /\ UNCHANGED <<now, wprobe, streak, lastOp, scVars, taskVars, proxy_list,
                       current_index, enabled, lastProxy, calls, page, lastPage, ck, breaker>>

\* record_failure(site), operation by operation: GET state; INCR failures; SET
\* last_failure; in HALF_OPEN, SET state OPEN and DELETE successes; else at the
\* threshold, SET state OPEN.
RecordFailureStep(w) ==
    LET r == redis[RaceSite]
        threshold == get_site_thresholds(RaceSite).failure_threshold
        done == wk' = [wk EXCEPT ![w] = IdleWk] /\ wsite' = [wsite EXCEPT ![w] = NoSite]
        goto(pc) == wk' = [wk EXCEPT ![w].pc = pc] /\ UNCHANGED wsite
    IN  /\ \/ /\ wk[w].pc = "idle"
              /\ wsite[w] = RaceSite
              /\ Incr(r.failures) <= threshold + ExtraFailures
              /\ wk' = [wk EXCEPT ![w] = [pc |-> "f_incr", state |-> get_state(r),
                                          failures |-> 0]]
              /\ UNCHANGED <<redis, wsite>>
           \/ /\ wk[w].pc = "f_incr"
              /\ redis' = [redis EXCEPT ![RaceSite].failures = Incr(@)]
              /\ wk' = [wk EXCEPT ![w].pc = "f_set_last_failure",
                                  ![w].failures = Incr(r.failures)]
              /\ UNCHANGED wsite
           \/ /\ wk[w].pc = "f_set_last_failure"
              /\ redis' = [redis EXCEPT ![RaceSite].last_failure = now]
              /\ IF wk[w].state = STATE_HALF_OPEN THEN goto("f_reopen")
                 ELSE IF wk[w].failures >= threshold THEN goto("f_open")
                 ELSE done
           \/ /\ wk[w].pc = "f_reopen"
              /\ redis' = [redis EXCEPT ![RaceSite].state = STATE_OPEN]
              /\ goto("f_del_successes")
           \/ /\ wk[w].pc = "f_del_successes"
              /\ redis' = [redis EXCEPT ![RaceSite].successes = NoKey]
              /\ done
           \/ /\ wk[w].pc = "f_open"
              /\ redis' = [redis EXCEPT ![RaceSite].state = STATE_OPEN]
              /\ done
        /\ UNCHANGED <<now, wprobe, streak, lastOp, scVars, taskVars, proxy_list,
                       current_index, enabled, lastProxy, calls, page, lastPage, ck, breaker>>

RaceNext ==
    \/ \E w \in Workers : IsAvailableStep(w)
    \/ \E w \in Workers : RecordSuccessStep(w)
    \/ \E w \in Workers : RecordFailureStep(w)
    \/ Tick

-----------------------------------------------------------------------------
(* Two tasks on one product, one database statement at a time *)

\* The product both tasks check.
OverlapPid == CHOOSE pid \in Pids : TRUE

\* What no step of a check changes.
checkFrame == <<cbVars, scVars, stats, run, checks, lastTask, lastPre, sched, proxy_list,
                current_index, enabled, lastProxy, calls, page, lastPage, wk, breaker>>

\* The UPDATE a commit flushes for the product after a scraped price: the
\* attributes the task has set on its row.
flush_price(ps, c) ==
    [ps EXCEPT ![OverlapPid] =
        [@ EXCEPT !.current_price = ck[c].new_price,
                  !.last_checked = now,
                  !.is_available = IF ck[c].row.is_available THEN @ ELSE TRUE,
                  !.unavailable_since = IF ck[c].row.is_available THEN @ ELSE NoTime]]

\* The task's session queries the product (tasks.py:226-232, 330): the row as
\* committed at that time stays in the session.
CheckerLoads(c) ==
    /\ ck[c].pc = "idle"
    /\ ck' = [ck EXCEPT ![c] = [pc |-> "loaded", row |-> products[OverlapPid],
                                new_price |-> 0]]
    /\ UNCHANGED <<dbVars, checkFrame>>

\* The scrape returns.  An error ends the check; ProductUnavailableError is
\* applied from the session's row and committed; a price goes on.
CheckerScrapes(c, res) ==
    /\ ck[c].pc = "loaded"
    /\ CASE res.kind = "price" ->
              /\ ck' = [ck EXCEPT ![c].pc = "scraped", ![c].new_price = res.price]
              /\ UNCHANGED products
         [] res.kind = "unavailable" ->
              /\ ck' = [ck EXCEPT ![c].pc = "done"]
              /\ products' = IF ck[c].row.is_available
                             THEN [products EXCEPT ![OverlapPid].is_available = FALSE,
                                                   ![OverlapPid].unavailable_since = now,
                                                   ![OverlapPid].last_checked = now]
                             ELSE products
         [] res.kind = "error" ->
              /\ ck' = [ck EXCEPT ![c].pc = "done"]
              /\ UNCHANGED products
    /\ UNCHANGED <<history, alerts, checkFrame>>

\* should_record_price queries the most recent history row as committed now.
CheckerShouldRecord(c) ==
    /\ ck[c].pc = "scraped"
    /\ ck' = [ck EXCEPT ![c].pc = IF should_record_price(history[OverlapPid], ck[c].new_price)
                                  THEN "recording" ELSE "alerting"]
    /\ UNCHANGED <<dbVars, checkFrame>>

\* record_price adds the row and commits, the product's pending changes with it.
CheckerRecords(c) ==
    /\ ck[c].pc = "recording"
    /\ history' = [history EXCEPT ![OverlapPid] = record_price(@, ck[c].new_price)]
    /\ products' = flush_price(products, c)
    /\ ck' = [ck EXCEPT ![c].pc = "alerting"]
    /\ UNCHANGED <<alerts, checkFrame>>

\* The crossing test on old_price, the price of the session's row, then
\* send_price_alert and the commit; a raising mail ends the task before it.
CheckerAlerts(c, mail) ==
    /\ ck[c].pc = "alerting"
    /\ LET old_price == ck[c].row.current_price
           dropped == price_dropped(ck[c].new_price, old_price, ck[c].row.target_price)
       IN  /\ alerts' = IF dropped
                        THEN Append(alerts, [pid |-> OverlapPid, new_price |-> ck[c].new_price,
                                             old_price |-> old_price])
                        ELSE alerts
           /\ products' = IF dropped /\ mail = "raises" THEN products
                          ELSE flush_price(products, c)
    /\ ck' = [ck EXCEPT ![c].pc = "done"]
    /\ UNCHANGED <<history, checkFrame>>

OverlapNext ==
    \/ \E c \in Checkers : CheckerLoads(c)
    \/ \E c \in Checkers, res \in ScrapeResults : CheckerScrapes(c, res)
    \/ \E c \in Checkers : CheckerShouldRecord(c)
    \/ \E c \in Checkers : CheckerRecords(c)
    \/ \E c \in Checkers, mail \in MailOutcomes : CheckerAlerts(c, mail)

-----------------------------------------------------------------------------
(* Specifications *)

\* The circuit breaker under concurrent workers.
Init == CbInit /\ ScIdle /\ TaskIdle /\ LibIdle

Next == CbNext

Spec == Init /\ [][Next]_vars

\* The circuit breaker constructed with thresholds of the caller's choice.
ConstructedInit == CbConstructed /\ ScIdle /\ TaskIdle /\ LibIdle

SpecConstructed == ConstructedInit /\ [][CbNext]_vars

\* scrape_product, called again and again.
ScrapeInit == CbInit /\ ScInit /\ TaskIdle /\ LibIdle

ScrapeNext == ScNext

SpecScrape == ScrapeInit /\ [][ScrapeNext]_vars

\* scrape_product next to the other users of the shared store.
PipelineNext == ScNext \/ EnvNext

SpecPipeline == ScrapeInit /\ [][PipelineNext]_vars

\* The price-check tasks on the products table.
TasksInit == CbInit /\ ScIdle /\ TaskInit /\ LibIdle

SpecTasks == TasksInit /\ [][TaskNext]_vars

\* The start of a run (selection, priorities, sort, first batch) on products of
\* many prices and targets.
PriorityInit == CbInit /\ ScIdle /\ PrioInit /\ LibIdle

PriorityNext ==
    \/ \E f \in FREQUENCIES : RunStart(f)
    \/ WorkerStart
    \/ HoursPass

SpecPriority == PriorityInit /\ [][PriorityNext]_vars

\* The start of a run on products with any target the API accepts.
AcceptedTargetsInit == CbInit /\ ScIdle /\ AcceptedInit /\ LibIdle

SpecAccepted == AcceptedTargetsInit /\ [][PriorityNext]_vars

\* The price-check tasks on products with and without history rows.
HistoryInit == CbInit /\ ScIdle /\ HistInit /\ LibIdle

SpecHistory == HistoryInit /\ [][TaskNext]_vars

\* The runs of the scheduler when every scrape returns (the fetches and the
\* browser fallback have timeouts) and the pool and the loop keep going: a
\* started worker returns, a free worker takes the next product, and a result
\* whose mail and database calls return is applied.
LiveNext ==
    \/ \E f \in FREQUENCIES : RunStart(f)
    \/ WorkerStart
    \/ \E pid \in Pids, res \in ScrapeResults : WorkerFinish(pid, res)
    \/ \E mail \in MailOutcomes : ApplyResult(mail)
    \/ ApplyHangs
    \/ HoursPass

SpecLive ==
    /\ TasksInit
    /\ [][LiveNext]_vars
    /\ WF_vars(WorkerStart)
    /\ WF_vars(\E pid \in Pids, res \in ScrapeResults : WorkerFinish(pid, res))
    /\ WF_vars(\E mail \in MailOutcomes : ApplyResult(mail))

\* The runs as the beat schedule sends them, each scrape taking its time.
SpecBeat == TasksInit /\ [][BeatNext]_vars

\* A run and check_single_product on the same product, their statements
\* interleaved.
SpecOverlap == TasksInit /\ [][OverlapNext]_vars

\* The result cache under set, get, invalidate and clear_all as time passes.
CacheInit == CbInit /\ ScIdle /\ TaskIdle /\ LibIdle

SpecCache == CacheInit /\ [][CacheNext]_vars

\* The circuit breaker of one site under workers whose calls interleave
\* between any two operations on the store.
SpecRace == Init /\ [][RaceNext]_vars

\* The price parser on the prices as the shops write them.
PricesInit == CbInit /\ ScIdle /\ TaskIdle /\ ProxyIdle /\ PriceInit /\ RaceIdle /\ CheckersIdle

SpecPrice == PricesInit /\ [][PriceNext]_vars

\* The page functions on any page.
PagesInit == CbInit /\ ScIdle /\ TaskIdle /\ ProxyIdle /\ PageInit /\ RaceIdle /\ CheckersIdle

SpecPage == PagesInit /\ [][PageNext]_vars

\* A proxy rotator and its callers.
RotatorInit == CbInit /\ ScIdle /\ TaskIdle /\ ProxyInit /\ PageIdle /\ RaceIdle /\ CheckersIdle

SpecProxy == RotatorInit /\ [][ProxyNext]_vars


-----------------------------------------------------------------------------
(* Circuit breaker: properties *)

FailureThreshold(s) == get_site_thresholds(s).failure_threshold
RecoveryTimeout(s) == get_site_thresholds(s).recovery_timeout

\* The step is a call `op` on site s.
Called(op, s) == lastOp'.op = op /\ lastOp'.site = s

\* C1 (first half): right after the failureThreshold-th consecutive record_failure
\* on a site (no record_success or reset in between) its circuit is OPEN and
\* lastFailureAt is recorded.
C1_OpenAfterThreshold ==
    \A s \in Sites :
        (lastOp.op = "record_failure" /\ lastOp.site = s /\ streak[s] >= FailureThreshold(s))
            => (get_state(redis[s]) = STATE_OPEN /\ redis[s].last_failure # NoKey)

\* C1 (second half): an is_available call made on an OPEN circuit before
\* lastFailureAt + recoveryTimeout answers false, changes nothing and lets no
\* worker through.
C1_RefusedWithinTimeout ==
    \A s \in Sites :
        (/\ Called("is_available", s)
         /\ get_state(redis[s]) = STATE_OPEN
         /\ redis[s].last_failure # NoKey
         /\ now < redis[s].last_failure + RecoveryTimeout(s))
            => (lastOp'.res = FALSE /\ redis' = redis /\ wsite' = wsite)

\* C1: after failureThreshold consecutive failures the circuit is OPEN with
\* lastFailureAt recorded, and every is_available before lastFailureAt +
\* recoveryTimeout is refused, so no request is made for the site.
C1_Thm == [](C1_OpenAfterThreshold) /\ [][C1_RefusedWithinTimeout]_vars

\* A call was refused on a circuit that a full streak of failures had opened.
C1_Witness ==
    \E s \in Sites :
        /\ lastOp = [op |-> "is_available", site |-> s, res |-> FALSE, pre |-> STATE_OPEN]
        /\ streak[s] >= FailureThreshold(s)
        /\ now < redis[s].last_failure + RecoveryTimeout(s)

\* The workers let through on a HALF_OPEN circuit of site s whose outcome is
\* not recorded yet.
Probes(s) == {w \in Workers : wsite[w] = s /\ wprobe[w]}

\* C2: on a HALF_OPEN circuit exactly one probing call is let through: while its
\* outcome is not recorded, every further is_available for the site is refused.
C2_OneProbe == \A s \in Sites : Cardinality(Probes(s)) <= 1

\* C3 (the counter): on every entry into HALF_OPEN the success counter is 0, and
\* in HALF_OPEN it stays below successThreshold.
C3_CounterStartsAtZero ==
    \A s \in Sites :
        (get_state(redis[s]) # STATE_HALF_OPEN /\ get_state(redis'[s]) = STATE_HALF_OPEN)
            => redis'[s].successes = 0

C3_CounterInRange ==
    \A s \in Sites :
        get_state(redis[s]) = STATE_HALF_OPEN => redis[s].successes \in 0..(success_threshold - 1)

\* C3 (the call): a record_success in HALF_OPEN adds one to the counter; when
\* that reaches successThreshold the circuit is CLOSED and the failure count,
\* the success count and lastFailureAt are cleared, otherwise it stays HALF_OPEN.
C3_SuccessInHalfOpen ==
    \A s \in Sites :
        (Called("record_success", s) /\ get_state(redis[s]) = STATE_HALF_OPEN)
            => IF redis[s].successes + 1 >= success_threshold
               THEN redis'[s] = [state |-> STATE_CLOSED, failures |-> NoKey,
                                 successes |-> NoKey, last_failure |-> NoKey]
               ELSE /\ redis'[s] = [redis[s] EXCEPT !.successes = @ + 1]
                    /\ get_state(redis'[s]) = STATE_HALF_OPEN

\* C3: in HALF_OPEN each record_success increments a counter that starts at 0 on
\* entry; the call that brings it to successThreshold closes the circuit and
\* clears the counters and lastFailureAt; with fewer the circuit stays HALF_OPEN.
C3_Thm ==
    /\ [](C3_CounterInRange)
    /\ [][C3_CounterStartsAtZero /\ C3_SuccessInHalfOpen]_vars

\* A record_success has just closed a HALF_OPEN circuit.
C3_Witness ==
    \E s \in Sites :
        /\ lastOp = [op |-> "record_success", site |-> s, res |-> TRUE, pre |-> STATE_HALF_OPEN]
        /\ redis[s].state = STATE_CLOSED

\* C4 (the call): a record_failure in HALF_OPEN sets the circuit OPEN whatever
\* the failure count, deletes the success counter and stamps lastFailureAt.
C4_FailureInHalfOpen ==
    \A s \in Sites :
        (Called("record_failure", s) /\ get_state(redis[s]) = STATE_HALF_OPEN)
            => /\ redis'[s].state = STATE_OPEN
               /\ redis'[s].successes = NoKey
               /\ redis'[s].last_failure = now

\* C4 (the next probe): an OPEN circuit moves to HALF_OPEN only when a full
\* recoveryTimeout has passed since lastFailureAt.
C4_ProbeAfterTimeout ==
    \A s \in Sites :
        (get_state(redis[s]) = STATE_OPEN /\ get_state(redis'[s]) = STATE_HALF_OPEN)
            => /\ Called("is_available", s)
               /\ now >= redis[s].last_failure + RecoveryTimeout(s)

\* C4: in HALF_OPEN a single record_failure reopens the circuit, discards the
\* successes counted and records a new lastFailureAt, so that a full
\* recoveryTimeout passes before the next probe.
C4_Thm == [][C4_FailureInHalfOpen /\ C4_ProbeAfterTimeout]_vars

\* A failed probe has reopened the circuit, and the circuit has since been let
\* into HALF_OPEN again.
C4_Witness ==
    \E s \in Sites :
        /\ lastOp = [op |-> "is_available", site |-> s, res |-> TRUE, pre |-> STATE_OPEN]
        /\ redis[s].failures > FailureThreshold(s)
        /\ now >= redis[s].last_failure + RecoveryTimeout(s)
        /\ redis[s].last_failure > 0

-----------------------------------------------------------------------------
(* scrape_product: properties *)

Ev == sp.events
FetchIdx == {i \in 1..Len(Ev) : Ev[i].e = "fetch"}
SleepIdx == {i \in 1..Len(Ev) : Ev[i].e = "sleep"}
PlayIdx == {i \in 1..Len(Ev) : Ev[i].e = "playwright"}
NFetch == Cardinality(FetchIdx)
LastFetch == Ev[CHOOSE i \in FetchIdx : \A j \in FetchIdx : j <= i]

\* The circuit of site s is OPEN and its recovery timeout has not run out.
CircuitBlocks(s) ==
    /\ get_state(redis[s]) = STATE_OPEN
    /\ redis[s].last_failure # NoKey
    /\ now < redis[s].last_failure + RecoveryTimeout(s)

\* C5: scrape_product consults the circuit breaker and then the cache before any
\* fetch: a call in progress has fetched nothing when the site's circuit is OPEN
\* within its recovery timeout or when the cache holds the URL within its TTL.
C5_GateBeforeFetch ==
    (sp.pc \in {"attempt", "exhausted"} /\ Ev # <<>>)
        => /\ ~CircuitBlocks(detect_site(sp.url))
           /\ cache_get(cache, sp.url, now) = NoData

AllTimedOut == \A i \in FetchIdx : Ev[i].k = "timeout"

\* C6: a call makes at most max_retries fetches; when every fetch times out it
\* makes exactly max_retries, nothing precedes the first, at least one sleep
\* lies between two consecutive fetches (max_retries - 1 or more in all), the
\* browser fallback is not called and the call returns None.
C6_Thm ==
    /\ NFetch <= max_retries
    /\ Ev # <<>> => Ev[1].e = "fetch"
    /\ (sp.pc = "done" /\ AllTimedOut)
        => /\ NFetch = max_retries
           /\ \A i, j \in FetchIdx : i < j => \E k \in SleepIdx : i < k /\ k < j
           /\ Cardinality(SleepIdx) >= max_retries - 1
           /\ PlayIdx = {}
           /\ sp.result.kind = "none"

\* Three timeouts in a row on a scraper of three attempts.
C6_Witness ==
    /\ sp.pc = "done"
    /\ max_retries = 3
    /\ NFetch = 3
    /\ AllTimedOut

\* C7: a 404 or 410 response ends the call at once: no sleep, fetch or fallback
\* follows it and the call raises ProductUnavailableError.
C7_NotFoundNotRetried ==
    \A i \in FetchIdx :
        (Ev[i].k = "http" /\ Ev[i].v \in {404, 410})
            => (i = Len(Ev) /\ sp.pc = "done" /\ sp.result.kind = "unavailable")

\* C8: the browser fallback is called at most once, only after max_retries
\* fetches, and as the last step; a call that ends with an attempt's data or
\* with ProductUnavailableError has not called it; an exhausted call has called
\* it exactly when its last fetch ended in HTTP 403 or in an extraction failure,
\* and returns the fallback's data when there is some, None otherwise.
C8_Thm ==
    /\ Cardinality(PlayIdx) <= 1
    /\ \A i \in PlayIdx : i = Len(Ev) /\ NFetch = max_retries /\ sp.pc = "done"
    /\ sp.pc = "done" =>
        IF LastFetch.k = "product"
        THEN PlayIdx = {} /\ sp.result = [kind |-> "data", via |-> "requests"]
        ELSE IF sp.result.kind = "unavailable"
        THEN PlayIdx = {}
        ELSE /\ NFetch = max_retries
             /\ (PlayIdx # {}) <=>
                    \/ LastFetch.k = "http" /\ LastFetch.v = 403
                    \/ LastFetch.k = "nodata"
             /\ sp.result = IF PlayIdx # {} /\ Ev[Len(Ev)].k = "product"
                            THEN [kind |-> "data", via |-> "playwright"]
                            ELSE [kind |-> "none", via |-> "requests"]

\* A call whose last attempt got HTTP 403 returns the data of the fallback.
C8_Witness ==
    /\ sp.pc = "done"
    /\ NFetch = max_retries
    /\ LastFetch.k = "http" /\ LastFetch.v = 403
    /\ sp.result = [kind |-> "data", via |-> "playwright"]

-----------------------------------------------------------------------------
(* Price-check tasks: properties *)

\* The step applies result kind `kind` to product pid.
Applies(pid, kind) ==
    lastTask'.op = "apply" /\ lastTask'.pid = pid /\ lastTask'.kind = kind

Alert(pid, new_price, old_price) ==
    [pid |-> pid, new_price |-> new_price, old_price |-> old_price]

\* C9: applying a scraped price calls send_price_alert exactly once, with the
\* scraped price and the previous current price, when the previous price was
\* above the target and the new one is at or below it; no other step calls it,
\* so no alert is sent while the price stays on one side of the target.
C9_AlertOnCrossing ==
    IF \E pid \in Pids : Applies(pid, "price")
    THEN \A pid \in Pids :
            Applies(pid, "price") =>
                LET old == products[pid].current_price
                    new == lastTask'.price
                    target == products[pid].target_price
                IN  /\ products'[pid].current_price = new
                    /\ alerts' = IF old > target /\ new <= target
                                 THEN Append(alerts, Alert(pid, new, old))
                                 ELSE alerts
    ELSE alerts' = alerts

C9_Thm == [][C9_AlertOnCrossing]_vars

\* A price that crossed the target has just been applied and alerted.
C9_Witness ==
    /\ lastTask.op = "apply" /\ lastTask.kind = "price"
    /\ lastTask.price <= products[lastTask.pid].target_price
    /\ alerts # <<>>
    /\ alerts[Len(alerts)].pid = lastTask.pid
    /\ alerts[Len(alerts)].new_price = lastTask.price
    /\ alerts[Len(alerts)].old_price > products[lastTask.pid].target_price

\* The step applies a scraped price of 95 to a product whose current price is
\* `old` and whose target is 100.
Scraped95(pid, old) ==
    /\ Applies(pid, "price") /\ lastTask'.price = 95
    /\ products[pid].current_price = old
    /\ products[pid].target_price = 100

\* C10 as stated: a product with currentPrice=100 and targetPrice=100 that is
\* scraped at 95 gets one new history entry 95 and exactly one alert (95, 100).
C10_AlertFromTarget ==
    [][\A pid \in Pids :
        Scraped95(pid, 100) =>
            /\ history'[pid] = Append(history[pid], 95)
            /\ alerts' = Append(alerts, Alert(pid, 95, 100))]_vars

\* C10 as the code has it: that product gets one new history entry 95 and no
\* alert, its previous price not being above the target; scraped at 95 from a
\* current price of 110 it gets the entry and exactly one alert (95, 110).
C10_Thm ==
    [][\A pid \in Pids :
        /\ Scraped95(pid, 100) =>
            /\ history'[pid] = Append(history[pid], 95)
            /\ alerts' = alerts
        /\ Scraped95(pid, 110) =>
            /\ history'[pid] = Append(history[pid], 95)
            /\ alerts' = Append(alerts, Alert(pid, 95, 110))]_vars

\* A product that stood at its target of 100 has just been scraped at 95.
C10_Witness ==
    \E pid \in Pids :
        /\ lastTask = [op |-> "apply", pid |-> pid, kind |-> "price", price |-> 95]
        /\ products[pid].target_price = 100
        /\ Len(history[pid]) >= 2
        /\ history[pid][Len(history[pid]) - 1] = 100
        /\ history[pid][Len(history[pid])] = 95
        /\ \A i \in 1..Len(alerts) : alerts[i] # Alert(pid, 95, 100)

-----------------------------------------------------------------------------
(* Price history and availability: properties *)

\* The step applies a result to some product.
AppliesSome == lastTask'.op = "apply"

Last(h) == h[Len(h)]

\* C11 (steps): a step that applies a scraped price appends it to the product's
\* history exactly when the history is empty or ends with another price, and
\* touches no other history; no other step touches a history.
C11_AppendIffChanged ==
    IF AppliesSome /\ lastTask'.kind = "price"
    THEN LET pid == lastTask'.pid
             new == lastTask'.price
             h == history[pid]
         IN  /\ history'[pid] = IF h = <<>> \/ Last(h) # new THEN Append(h, new) ELSE h
             /\ \A q \in Pids \ {pid} : history'[q] = history[q]
    ELSE history' = history

\* C11 (states): no two consecutive history rows of a product have the same price.
C11_NoRepeat ==
    \A pid \in Pids : \A i \in 1..(Len(history[pid]) - 1) :
        history[pid][i] # history[pid][i + 1]

\* C11: a history row is appended on a successful check iff the product has no
\* row yet or the scraped price differs from the most recent row's; hence no two
\* consecutive rows carry the same price.
C11_Thm == [](C11_NoRepeat) /\ [][C11_AppendIffChanged]_vars

\* Two checks in a row returned 95: the first added the row, the second none.
C11_Witness ==
    /\ lastTask.op = "apply" /\ lastTask.kind = "price" /\ lastTask.price = 95
    /\ lastPre.current_price = 95
    /\ history[lastTask.pid] = <<110, 95>>

\* C12 (states): a product marked unavailable carries the time it became so.
C12_UnavailableSinceSet ==
    \A pid \in Pids :
        ~products[pid].is_available => products[pid].unavailable_since # NoTime

\* C12 (steps): a step that applies a scraped price leaves the product available
\* with unavailable_since cleared.
C12_PriceMakesAvailable ==
    (AppliesSome /\ lastTask'.kind = "price") =>
        /\ products'[lastTask'.pid].is_available
        /\ products'[lastTask'.pid].unavailable_since = NoTime

\* C12: in every state reached by check outcomes applied by the run or the
\* single-product task, is_available = false implies unavailable_since is set;
\* a successful check of an unavailable product makes it available and clears
\* unavailable_since.
C12_Thm == [](C12_UnavailableSinceSet) /\ [][C12_PriceMakesAvailable]_vars

\* A product that was unavailable has just been scraped successfully.
C12_Witness ==
    /\ lastTask.op = "apply" /\ lastTask.kind = "price"
    /\ ~lastPre.is_available /\ lastPre.unavailable_since # NoTime
    /\ products[lastTask.pid].is_available
    /\ products[lastTask.pid].unavailable_since = NoTime

\* C13: a step that applies a failed scrape (no data after all attempts, or any
\* other exception) leaves every product row as it was, appends no history row
\* and sends no alert.
C13_Thm ==
    [][(AppliesSome /\ lastTask'.kind = "error") =>
            /\ products' = products
            /\ history' = history
            /\ alerts' = alerts]_vars

\* A failed scrape has just been applied to a product that an earlier check had
\* changed.
C13_Witness ==
    /\ lastTask.op = "apply" /\ lastTask.kind = "error"
    /\ products[lastTask.pid] = lastPre
    /\ lastPre.current_price # 110
    /\ Len(history[lastTask.pid]) = 2

-----------------------------------------------------------------------------
(* Runs, batches and workers: properties *)

Range(seq) == {seq[i] : i \in 1..Len(seq)}

InRun == run.pc # "idle"

\* The products whose scrape has returned and whose result waits to be applied.
Returned == {run.results[i].pid : i \in 1..Len(run.results)}

\* The step ends the run in progress.
RunEnds == InRun /\ run'.pc = "idle"

\* C14 (states): during a run every selected product is waiting in a later
\* batch, submitted, being scraped, returned with a result, or applied.
C14_NoneLost ==
    InRun =>
        Range(sched.selected) =
            Range(run.rest) \cup Range(run.todo) \cup run.inflight
                \cup Returned \cup Range(sched.applied)

\* C14 (steps): applying a failed scrape never ends the run early, and a run
\* that ends without an exception in the applying loop has applied a result to
\* every selected product.
C14_RunGoesOn ==
    /\ (InRun /\ AppliesSome /\ lastTask'.kind = "error") =>
            /\ ~sched'.aborted
            /\ RunEnds => (run.rest = <<>> /\ Len(run.results) = 1)
    /\ (RunEnds /\ ~sched'.aborted) =>
            Range(sched.applied) \cup {lastTask'.pid} = Range(sched.selected)

\* C14: an exception in one product's scrape becomes a failure result; it ends
\* neither the batch nor the run, and every other selected product is still
\* scraped and has its result applied.
C14_Thm == [](C14_NoneLost) /\ [][C14_RunGoesOn]_vars

\* The last result of a full batch was a failed scrape, and the run has gone on
\* to the next batch.
C14_Witness ==
    /\ lastTask.op = "apply" /\ lastTask.kind = "error"
    /\ run.pc = "scraping" /\ run.todo # <<>>
    /\ Len(sched.applied) = SCRAPING_BATCH_SIZE
    /\ ~sched.aborted

\* C15: each product's update is committed on its own, and a failure while one
\* product is scraped or its result applied never keeps another selected
\* product's update from being committed: however a run ends, a result has been
\* applied to every selected product, and no committed row is taken back.
C15_FailureBlocksNoOther ==
    [][/\ RunEnds =>
            Range(sched.applied) \cup {lastTask'.pid} = Range(sched.selected)
       /\ \A pid \in Pids : Len(history'[pid]) >= Len(history[pid])]_vars

\* The place of a product in a sequence without repetition.
Pos(seq, pid) == CHOOSE i \in 1..Len(seq) : seq[i] = pid

\* The batch of a selected product: 0 for products_sorted[0 : batch_size], ...
BatchOf(pid) == (Pos(sched.selected, pid) - 1) \div SCRAPING_BATCH_SIZE

\* The priority score of a row, by the rule of the specification: what the price
\* stands above the target, over the target (0 at or below it).
Above(p) == IF p.current_price <= p.target_price THEN 0 ELSE p.current_price - p.target_price
ScoreLeq(p, q) == Above(p) * q.target_price <= Above(q) * p.target_price
ScoreEq(p, q) == Above(p) * q.target_price = Above(q) * p.target_price

\* C16 (states): a product whose scrape has started belongs to a batch all of
\* whose predecessors have had every result applied.
C16_BatchesInSequence ==
    InRun =>
        \A p \in Range(sched.started), q \in Range(sched.selected) :
            BatchOf(q) < BatchOf(p) => q \in Range(sched.applied)

\* C16 (steps): when a run starts, every product of an earlier batch has a score
\* less than or equal to that of every product of a later batch.
C16_BatchesByPriority ==
    (~InRun /\ run'.pc = "scraping") =>
        \A i, j \in 1..Len(sched'.selected) :
            (i - 1) \div SCRAPING_BATCH_SIZE < (j - 1) \div SCRAPING_BATCH_SIZE
                => ScoreLeq(products[sched'.selected[i]], products[sched'.selected[j]])

\* C16: within a run the batches execute one after another, in priority order.
C16_Thm == [](C16_BatchesInSequence) /\ [][C16_BatchesByPriority]_vars

\* The scrape of a product of the second batch has started, after both results
\* of the first batch were applied.
C16_Witness ==
    /\ run.pc = "scraping"
    /\ Len(sched.started) = SCRAPING_BATCH_SIZE + 1
    /\ Len(sched.applied) = SCRAPING_BATCH_SIZE
    /\ run.inflight # {}

\* How many products the batches handed to the pool so far hold.
Submitted == Len(sched.selected) - Len(run.rest)

NoRepeat(seq) == \A i, j \in 1..Len(seq) : i # j => seq[i] # seq[j]

C18_Thm ==
    (InRun /\ sched.applied = <<>> /\ run.results = <<>>) =>
        LET sel == sched.selected
            row(i) == products[sel[i]]
        IN  /\ Len(sel) = Len(run.products)
            /\ Range(sel) = Range(run.products)
            /\ \A i, j \in 1..Len(sel) :
                i < j =>
                    /\ ScoreLeq(row(i), row(j))
                    /\ ScoreEq(row(i), row(j))
                            => Pos(run.products, sel[i]) < Pos(run.products, sel[j])

\* The sort has moved a row forward and kept two rows of equal score in the
\* order of the query, which is not the order of their ids.
C18_Witness ==
    /\ InRun /\ sched.applied = <<>>
    /\ sched.selected # run.products
    /\ \E i, j \in 1..Len(sched.selected) :
        /\ i < j
        /\ sched.selected[i] > sched.selected[j]
        /\ ScoreEq(products[sched.selected[i]], products[sched.selected[j]])

\* C19: calculate_priority is 0 for a product at or below its target and
\* (current - target) / target above it; for one positive target it grows
\* strictly with the current price above the target.
C19_Thm ==
    \A pid \in Pids :
        LET p == products[pid]
            score == calculate_priority(p)
        IN  /\ score.den > 0
            /\ p.current_price <= p.target_price => score.num = 0
            /\ p.current_price > p.target_price =>
                    score.num * p.target_price
                        = (p.current_price - p.target_price) * score.den
            /\ \A qid \in Pids :
                LET q == products[qid]
                    other == calculate_priority(q)
                IN  (/\ q.target_price = p.target_price
                     /\ p.target_price < p.current_price
                     /\ p.current_price < q.current_price)
                        => score.num * other.den < other.num * score.den

\* A run has sorted a product below its target before two products above the
\* same target, the dearer one last.
C19_Witness ==
    /\ InRun
    /\ Len(sched.selected) = 3
    /\ LET a == products[sched.selected[1]]
           b == products[sched.selected[2]]
           c == products[sched.selected[3]]
       IN  /\ a.target_price = b.target_price /\ b.target_price = c.target_price
           /\ a.current_price < a.target_price
           /\ b.target_price < b.current_price
           /\ b.current_price < c.current_price

\* The rows of bucket F last checked at least F hours before time t.
InBucketAndDue(F, t) ==
    {pid \in Pids : /\ products[pid].check_frequency = F
                    /\ t - products[pid].last_checked >= F * Hour}

\* C20 (steps): a run for bucket F starts on exactly the products of the bucket
\* that were last checked at least F hours ago (and starts on nothing when there
\* is none); a step of a run scrapes and modifies selected products only.
C20_SelectsDueOfBucket ==
    /\ ~InRun =>
        /\ InRun' => Range(sched'.selected) = InBucketAndDue(run'.frequency, now)
        /\ (\A F \in FREQUENCIES : InBucketAndDue(F, now) = {}) => ~InRun'
    /\ InRun =>
        /\ Range(sched'.started) \subseteq Range(sched.selected)
        /\ \A pid \in Pids \ Range(sched.selected) :
            products'[pid] = products[pid] /\ history'[pid] = history[pid]

\* C20 (states): the selection of a run is never empty and never repeats a row.
C20_SelectionKept ==
    InRun => sched.selected # <<>> /\ run.frequency \in FREQUENCIES

\* C20: a run for bucket F selects exactly the products whose check_frequency
\* is F and whose last_checked lies at least F hours back; the others are
\* neither scraped nor modified by the run.
C20_Thm == [](C20_SelectionKept) /\ [][C20_SelectsDueOfBucket]_vars

\* A run of the 6-hour bucket has a scrape's result in hand while it leaves
\* alone a product of its bucket that was checked less than six hours before,
\* and a product of the 12-hour bucket.
C20_Witness ==
    /\ run.pc = "applying" /\ run.frequency = 6
    /\ \E pid \in Pids \ Range(sched.selected) :
        /\ products[pid].check_frequency = 6
        /\ now - products[pid].last_checked < 6 * Hour
    /\ \E pid \in Pids \ Range(sched.selected) : products[pid].check_frequency = 12

-----------------------------------------------------------------------------
(* C21 *)

\* C21: every scrape outcome the tasks receive adds exactly one row to the
\* scraping_stats table, and the rows already there are never changed or
\* deleted.
C21_OneStatPerOutcome ==
    [][/\ checks' = checks + 1 => Len(stats') = Len(stats) + 1
       /\ SubSeq(stats', 1, Len(stats)) = stats]_vars

-----------------------------------------------------------------------------
(* C22 *)

\* The last set(url, data, ttl) that neither a delete nor its TTL has undone, or NoPut.
LivePut(url) ==
    LET p == put[url]
        ttl == IF p.ttl # 0 THEN p.ttl ELSE default_ttl
    IN  IF p # NoPut /\ now < p.at + ttl THEN p ELSE NoPut

\* C22 (as the code has it): a get(url) that follows a set(url, data) before the
\* TTL runs out returns every field of data as stored, except that the field
\* cached_at is added, or replaced, with the time of the set; after the TTL,
\* an invalidate(url) or a clear_all(), get(url) returns None.
C22_RoundTrip ==
    lastCache.op = "get" =>
        LET p == LivePut(lastCache.url)
            res == lastCache.res
        IN  IF p = NoPut THEN res = NoData
            ELSE /\ DOMAIN res = DOMAIN p.data \cup {"cached_at"}
                 /\ \A k \in DOMAIN p.data \ {"cached_at"} : res[k] = p.data[k]
                 /\ res["cached_at"] = p.at

\* C22: set and invalidate on one URL leave the entries of the other URLs as
\* they were.
C22_OthersUntouched ==
    [][lastCache'.op \in {"set", "invalidate"} =>
            \A u \in Urls \ {lastCache'.url} : cache'[u] = cache[u]]_vars

-----------------------------------------------------------------------------
(* C23 *)

CheckIdx == {i \in 1..Len(Ev) : Ev[i].e = "check"}
ExtractIdx == {i \in 1..Len(Ev) : Ev[i].e = "extract"}

-----------------------------------------------------------------------------
(* C24 *)

\* The keys of a site after k more record_failure calls at time t.
RECURSIVE FailTimes(_, _, _, _)
FailTimes(r, site, t, k) ==
    IF k = 0 THEN r ELSE FailTimes(record_failure(r, site, t), site, t, k - 1)

\* C24: after reset(site) none of the site's keys is left: get_state returns
\* CLOSED, is_available returns true, and the circuit stays CLOSED through
\* failure_threshold - 1 new failures and opens at the failure_threshold-th.
C24_SiteCleared ==
    lastOp.op = "reset" =>
        LET s == lastOp.site
            r == redis[s]
            threshold == get_site_thresholds(s).failure_threshold
        IN  /\ r = NoKeys
            /\ get_state(r) = STATE_CLOSED
            /\ is_available(r, s, now).res
            /\ \A k \in 0..(threshold - 1) : get_state(FailTimes(r, s, now, k)) = STATE_CLOSED
            /\ get_state(FailTimes(r, s, now, threshold)) = STATE_OPEN

\* C24: reset(site) leaves the keys of every other site as they were.
C24_OthersUnchanged ==
    [][lastOp'.op = "reset" =>
            \A o \in Sites \ {lastOp'.site} : redis'[o] = redis[o]]_vars

C24_Thm == [](C24_SiteCleared) /\ C24_OthersUnchanged

\* An OPEN circuit is reset while the other site has failures on record.
C24_Witness ==
    /\ lastOp.op = "reset"
    /\ lastOp.pre = STATE_OPEN
    /\ \E o \in Sites \ {lastOp.site} : redis[o].failures > 0

-----------------------------------------------------------------------------
(* C25 *)

\* The number of the attempt that made fetch i.
AttemptOf(i) == Cardinality({j \in FetchIdx : j <= i})

\* The sleeps between fetch i and the fetch that follows it.
SleepsAfter(i) ==
    {k \in SleepIdx : k > i /\ \A j \in FetchIdx : j > i => k < j}

\* C25: after a timed-out attempt k that is followed by another attempt, the
\* call sleeps exactly once before attempt k + 1, for retry_delay * k seconds;
\* a call that returns data from its third attempt after two timeouts has
\* slept exactly twice.
C25_OneSleepPerRetry ==
    /\ \A i \in FetchIdx :
            (Ev[i].k = "timeout" /\ \E j \in FetchIdx : j > i)
                => /\ Cardinality(SleepsAfter(i)) = 1
                   /\ \A k \in SleepsAfter(i) : Ev[k].v = retry_delay * AttemptOf(i)
    /\ (/\ sp.pc = "done"
        /\ NFetch = 3
        /\ LastFetch.k = "product"
        /\ \A i \in FetchIdx : Ev[i].k \in {"timeout", "product"})
            => Cardinality(SleepIdx) = 2

-----------------------------------------------------------------------------
(* C26 *)

\* The scrapes the run in progress has still to receive are within the number
\* of scrapes the model follows.
RunInBudget ==
    checks + Len(run.rest) + Len(run.todo) + Cardinality(run.inflight) <= MaxChecks

\* C26: when every scrape_product call returns, every worker that has taken a
\* product returns to the pool, and every run of the scheduler finishes (and
\* closes its session on the way out).
C26_RunTerminates ==
    /\ \A pid \in Pids :
            (RunInBudget /\ pid \in run.inflight) ~> (pid \notin run.inflight)
    /\ (InRun /\ RunInBudget) ~> ~InRun

-----------------------------------------------------------------------------
(* C27, C28 *)

\* C27: the get_next calls made on a non-empty pool since its last change
\* return the proxies in pool order from the index the first call found,
\* wrapping around: n calls return each proxy once and call n + 1 returns the
\* first one again.
C27_RoundRobin ==
    Len(proxy_list) > 0 =>
        \A i \in 1..Len(calls.res) :
            calls.res[i] = proxy_list[((calls.start + i - 1) % Len(proxy_list)) + 1]

NoDuplicates(l) == \A i, j \in 1..Len(l) : l[i] = l[j] => i = j

-----------------------------------------------------------------------------
(* C29, C30 *)

\* The price blocks of the page that lie in a core price container.
InCore ==
    {i \in 1..Len(page.doc) :
        page.doc[i].kind = "price" /\ page.doc[i].container \in CoreContainers}

\* C29: on an Amazon page with a core price container the extractor returns
\* the price of that container, whatever prices precede it in the document;
\* without one it returns the first price of the document.
C29_CorePreferred ==
    lastPage.op = "scrape_amazon" =>
        LET core == find(InCore)
        IN  IF core # 0
            THEN lastPage.res = amazon_price(page.doc[core].whole, page.doc[core].fraction)
            ELSE lastPage.res = scrape_amazon(page.doc)

\* A page that shows a price and says the product is in stock, and nothing else
\* about its stock.
InStockPage ==
    /\ \E i \in 1..Len(page.doc) : page.doc[i].kind = "price"
    /\ \E i \in 1..Len(page.doc) : page.doc[i].stock = "in"
    /\ \A i \in 1..Len(page.doc) : page.doc[i].stock # "out"

\* C30: the detection returns true whenever an indicator occurs in the text of
\* the page, in any case of its letters, and false for every in-stock page.
C30_PhraseDetection ==
    lastPage.op = "is_product_unavailable" =>
        /\ (\E indicator \in unavailable_texts :
                str_in(indicator, str_lower(get_text(page.doc)))) => lastPage.res
        /\ InStockPage => ~lastPage.res

-----------------------------------------------------------------------------
(* C31 *)

\* The style with the other decimal separator.
OtherSeparator(style) == [style EXCEPT !.sep = IF @ = "," THEN "." ELSE ","]

-----------------------------------------------------------------------------
(* C32 *)

\* C32: when no breaker call is under way and the site's circuit is OPEN, a
\* last_failure is on record, so that is_available lets a request through
\* once the recovery timeout is over.
C32_OpenHasLastFailure ==
    ((\A w \in Workers : wk[w].pc = "idle") /\ get_state(redis[RaceSite]) = STATE_OPEN)
        => redis[RaceSite].last_failure # NoKey

-----------------------------------------------------------------------------
(* C33 *)

\* C33: a run of bucket F sent F hours after the previous one selects every
\* product of the bucket that was checked during the previous run.
C33_SelectedByNextRun ==
    [][\A f \in FREQUENCIES :
          BeatRun(f) =>
              \A pid \in Pids :
                  (/\ products[pid].check_frequency = f
                   /\ products[pid].last_checked >= now - f * Hour
                   /\ products[pid].last_checked < now)
                      => pid \in Range(sched'.selected)]_vars

-----------------------------------------------------------------------------
(* C34 *)

\* C34: when send_price_alert raised on a crossing and the new price is
\* committed all the same, the next check of the product that finds the price
\* at or below the target calls send_price_alert.
C34_CrossingNotLost ==
    [][\A pid \in Pids :
          (/\ sched.aborted
           /\ lastTask.op = "apply" /\ lastTask.pid = pid /\ lastTask.kind = "price"
           /\ products[pid].current_price = lastTask.price
           /\ lastTask'.op = "apply" /\ lastTask'.pid = pid /\ lastTask'.kind = "price"
           /\ lastTask'.price <= products[pid].target_price)
              => /\ Len(alerts') = Len(alerts) + 1
                 /\ alerts'[Len(alerts')].pid = pid]_vars

-----------------------------------------------------------------------------
(* C35 *)

\* C35: when the two checks of the product have both scraped the same price
\* at or below the target, from above it, one history row has been added and
\* send_price_alert has been called once.
C35_OneRowOneAlert ==
    (/\ \A c \in Checkers : ck[c].pc = "done" /\ ck[c].new_price > 0
     /\ ck["run"].new_price = ck["single"].new_price
     /\ ck["run"].new_price <= products[OverlapPid].target_price)
        => /\ Len(history[OverlapPid]) = 2
           /\ Len(alerts) = 1

-----------------------------------------------------------------------------
(* C36 *)

\* C36: a site without thresholds of its own that has failed as many times
\* in a row as the failure_threshold the breaker was constructed with has
\* its circuit opened.
C36_ConfiguredThreshold ==
    \A s \in Sites :
        (s \notin DOMAIN SITE_THRESHOLDS /\ streak[s] >= breaker.failure_threshold)
            => get_state(redis[s]) # STATE_CLOSED

-----------------------------------------------------------------------------
(* C37 *)

\* C37: a scraped price or a ProductUnavailableError that is applied to a
\* product sets its last_checked to the time of the check.
C37_CheckStamped ==
    [][(lastTask'.op = "apply" /\ lastTask'.kind \in {"price", "unavailable"})
          => products'[lastTask'.pid].last_checked = now]_vars

-----------------------------------------------------------------------------
(* C38 *)

\* C38: record_failure on a site whose circuit is OPEN leaves it OPEN and
\* leaves the time from which is_available lets a probe through,
\* last_failure + recovery_timeout, as it was.
C38_OpenFailureKeepsDeadline ==
    [][\A s \in Sites :
          (/\ lastOp'.op = "record_failure" /\ lastOp'.site = s
           /\ get_state(redis[s]) = STATE_OPEN)
              => /\ get_state(redis'[s]) = STATE_OPEN
                 /\ redis'[s].last_failure = redis[s].last_failure]_vars

-----------------------------------------------------------------------------
(* C39 *)

\* C39: while the rotator is enabled current_index is an index of
\* proxy_list, and a get_next just made has returned a proxy of the pool.
C39_IndexInBounds ==
    enabled =>
        /\ current_index < Len(proxy_list)
        /\ lastProxy.op = "get_next" => list_in(lastProxy.res, proxy_list)

-----------------------------------------------------------------------------
(* C40 *)

\* C40: calculate_priority raises for no product of a run, so that no run
\* ends in the sort of its products.
C40_SortNeverAborts ==
    [][\A f \in FREQUENCIES : RunStart(f) => ~sched'.aborted]_vars


====
